---- MODULE Spec2Model ----
(***************************************************************************)
(* A model of the concurrent batch-fetch pipeline of run_google_serp.py:   *)
(* the permit pool, fetch-with-retry (fetch_serp_data, fetch_ai_mode_data),*)
(* the per-keyword orchestrator (process_single_keyword) and the batch     *)
(* scheduler (process_keywords_async), together with the row extraction    *)
(* the orchestrator calls, main() with the keywords file, the clock and    *)
(* the two output files, and the run command of manage.py that starts it.  *)
(*                                                                         *)
(* Spec, SpecFetch and SpecInterrupt are the batch inside asyncio.run, and *)
(* SpecLive is that batch under the fairness of the event loop; SpecMain   *)
(* is a whole run of either program; SpecExtract is the extraction         *)
(* functions called on documents with absent and null fields; SpecLoad is  *)
(* _load_keywords on small text files; SpecDashboard is the scraper's      *)
(* batch and the sequential pipeline of streamlit-ai-audit/app.py run      *)
(* against the same provider.                                              *)
(*                                                                         *)
(* One step of the model is one suspension-free stretch of one coroutine:  *)
(* the event loop runs a coroutine from one await to the next, so the      *)
(* statements between two awaits are one action.                           *)
(***************************************************************************)
EXTENDS Integers, Sequences, FiniteSets, TLC

(***************************************************************************)
(* Bounds of the model.                                                    *)
(***************************************************************************)
\* Longest keyword list Init draws.
MaxKeywords == 2
\* Largest setting of MAX_CONCURRENT_REQUESTS Init draws (the source sets 20).
MaxPermits == 2
\* Last second of the clock.
MaxClock == 2
\* Most fields a generated document lacks or holds null in.
MaxHoles == 2
\* Most calls of the extraction functions on one document.
MaxCalls == 2

(***************************************************************************)
(* Program constants.                                                      *)
(***************************************************************************)
MAX_RETRIES == 3
RETRY_DELAY_BASE == 1

VARIABLES
    keywords,                 \* the keyword list handed to process_keywords_async
    LOAD_GOOGLE_AI_MODE,      \* module constant, fixed during a run
    MAX_CONCURRENT_REQUESTS,  \* module constant, fixed during a run
    semaphore,                \* asyncio.Semaphore: its free permits
    session_open,             \* the aiohttp.ClientSession context is entered
    pc,                       \* per orchestrator: where its coroutine is suspended
    attempt,                  \* per orchestrator: the retry loop's variable
    posted,                   \* per orchestrator: the endpoints it has posted to
    trace,                    \* whether fetch_log is kept in this run
    fetch_log,                \* per orchestrator: the permits, attempts, backoff delays,
                              \* failure kinds and stderr lines of its current (or
                              \* last) fetch
    serp_response,            \* per orchestrator: what fetch_serp_data returned
    ai_mode_response,         \* per orchestrator: what fetch_ai_mode_data returned
    rows,                     \* per orchestrator: its local list rows
    counted,                  \* per orchestrator: what it has added to each counter of stats
    exception,                \* per orchestrator: the exception its task ended with
    stats,                    \* the shared ProcessingStats
    finished,                 \* orchestrators in the order they finished
    collected,                \* how many of finished the as_completed loop consumed
    all_rows,                 \* the accumulating batch result
    batch,                    \* process_keywords_async: not_started, running, done,
                              \* raised or interrupted
    entry,                    \* the program the user started: run_google_serp or manage
    keywords_file,            \* inputs/keywords.txt
    now,                      \* the clock, in seconds
    main_pc,                  \* where main() of run_google_serp.py is
    start_time,               \* main's local start_time
    ts,                       \* _create_output_paths' local ts
    csv_file,                 \* outputs/csv/serp_results_<ts>.csv
    json_file,                \* outputs/json/serp_results_<ts>.json
    console,                  \* what the two programs printed to stderr and stdout
    exit_code,                \* the exit code of each of the two programs
    document,                 \* a document handed to the extraction functions
    returned,                 \* what the calls of the extraction functions returned
    script,                   \* the provider: the outcome of every request attempt
    audit                     \* the dashboard's process_keywords_async (app.py)

vars == <<keywords, LOAD_GOOGLE_AI_MODE, MAX_CONCURRENT_REQUESTS, semaphore,
          session_open, pc, attempt, posted, trace, fetch_log, serp_response,
          ai_mode_response, rows, counted, exception, stats, finished,
          collected, all_rows, batch, entry, keywords_file, now, main_pc,
          start_time, ts, csv_file, json_file, console, exit_code,
          document, returned, script, audit>>

(***************************************************************************)
(* JSON documents.  A JSON object is a function from its keys, a JSON      *)
(* array a sequence.  None (JSON null) is written in three ways, by the    *)
(* kind of value the code reads at that place, because TLC compares a      *)
(* value only with values of its own kind: NoneVal where a string is read, *)
(* NoneList where an array is read, NoneDict where an object is read.      *)
(***************************************************************************)
NoneVal == "None"
NoneList == <<[null |-> TRUE]>>
NoneDict == [null |-> TRUE]

EmptyDict == [k \in {} |-> 0]

\* d.get(k) for a leaf
Get(d, k) == IF k \in DOMAIN d THEN d[k] ELSE NoneVal

\* d.get(k, []): the default stands in for a missing key, not for null
GetListDefault(d, k) == IF k \in DOMAIN d THEN d[k] ELSE <<>>

\* d.get(k) or []
GetList(d, k) == IF k \in DOMAIN d /\ d[k] # NoneList THEN d[k] ELSE <<>>

\* d.get(k) or {}
GetDict(d, k) == IF k \in DOMAIN d /\ d[k] # NoneDict THEN d[k] ELSE EmptyDict

\* a or b, for leaves: None and "" are falsy
OrElse(a, b) == IF a = NoneVal \/ a = "" THEN b ELSE a

\* bool(d) of a dict
Truthy(d) == DOMAIN d # {}

\* What a function gives its caller when a TypeError leaves it, in place of
\* the list of rows.
Raised == <<[raised |-> "TypeError"]>>

\* The rows of two stretches of a loop body, unless one of them raised.
Cat(a, b) == IF a = Raised \/ b = Raised THEN Raised ELSE a \o b

RECURSIVE ConcatAll(_)
ConcatAll(ss) == IF ss = <<>> THEN <<>> ELSE Cat(Head(ss), ConcatAll(Tail(ss)))

\* for x in v, with the rows of every turn: iterating None raises TypeError.
ForEach(v, rows_of_each) == IF v = NoneList THEN Raised ELSE ConcatAll(rows_of_each)

ReferenceRow(ref, result_keyword, markdown) ==
    [result_type |-> "ai_overview",
     keyword |-> result_keyword,
     domain |-> Get(ref, "domain"),
     references_source |-> OrElse(Get(ref, "source"), Get(ref, "title")),
     references_url |-> Get(ref, "url"),
     references_text |-> Get(ref, "text"),
     references_markdown |-> markdown]

\* The rows of the references of the item itself, without those of its
\* sub-items and their components.
AiOverviewItemRowsTopOnly(item, result_keyword) ==
    IF Get(item, "type") # "ai_overview" THEN <<>>
    ELSE
    LET ai_markdown == Get(item, "markdown")
        refs == GetList(item, "references")
    IN  ForEach(refs, [i \in 1..Len(refs) |->
            <<ReferenceRow(refs[i], result_keyword, OrElse(ai_markdown, ""))>>])

AiOverviewItemRows(item, result_keyword) ==
    IF Get(item, "type") # "ai_overview" THEN <<>>
    ELSE
    LET ai_markdown == Get(item, "markdown")
        refs == GetList(item, "references")
        sub_items == GetList(item, "items")
        SubRows(sub_item) ==
            LET sub_markdown == OrElse(OrElse(Get(sub_item, "markdown"), ai_markdown), "")
                srefs == GetList(sub_item, "references")
                comps == GetList(sub_item, "components")
                CompRows(component) ==
                    LET comp_markdown == OrElse(Get(component, "markdown"), sub_markdown)
                        crefs == GetList(component, "references")
                    IN  ForEach(crefs, [i \in 1..Len(crefs) |->
                            <<ReferenceRow(crefs[i], result_keyword, OrElse(comp_markdown, ""))>>])
            IN  Cat(ForEach(srefs, [i \in 1..Len(srefs) |->
                        <<ReferenceRow(srefs[i], result_keyword, sub_markdown)>>]),
                    ForEach(comps, [c \in 1..Len(comps) |-> CompRows(comps[c])]))
    IN  Cat(ForEach(refs, [i \in 1..Len(refs) |->
                <<ReferenceRow(refs[i], result_keyword, OrElse(ai_markdown, ""))>>]),
            ForEach(sub_items, [s \in 1..Len(sub_items) |-> SubRows(sub_items[s])]))


OrganicItemRows(item, result_keyword) ==
    IF Get(item, "type") # "organic" THEN <<>>
    ELSE <<[result_type |-> "organic",
            keyword |-> result_keyword,
            page |-> Get(item, "page"),
            rank_group |-> Get(item, "rank_group"),
            rank_absolute |-> Get(item, "rank_absolute"),
            position |-> Get(item, "position"),
            domain |-> Get(item, "domain"),
            url |-> Get(item, "url"),
            title |-> Get(item, "title"),
            description |-> Get(item, "description"),
            extended_snippet |-> Get(item, "extended_snippet"),
            breadcrumb |-> Get(item, "breadcrumb"),
            website_name |-> Get(item, "website_name")]>>

\* The body of `for item in items` in _extract_ai_mode_rows: a summary row,
\* then a row for each reference.
AiModeItemRows(item, result_keyword) ==
    IF Get(item, "type") # "ai_overview" THEN <<>>
    ELSE
    LET ai_markdown == OrElse(Get(item, "markdown"), "")
        references == GetList(item, "references")
    IN
    \* len(None) raises TypeError
    IF references = NoneList THEN Raised
    ELSE
    LET citations_count == Len(references)
        primary_domain == IF references # <<>>
                          THEN OrElse(Get(references[1], "domain"), "") ELSE ""
        primary_url == IF references # <<>>
                       THEN OrElse(Get(references[1], "url"), "") ELSE ""
    IN  <<[result_type |-> "ai_mode",
           keyword |-> result_keyword,
           ai_mode_summary |-> ai_markdown,
           ai_mode_citations_count |-> citations_count,
           ai_mode_primary_domain |-> primary_domain,
           ai_mode_primary_url |-> primary_url,
           domain |-> primary_domain]>>
        \o [i \in 1..Len(references) |->
               [result_type |-> "ai_mode",
                keyword |-> result_keyword,
                domain |-> Get(references[i], "domain"),
                references_source |-> OrElse(Get(references[i], "source"),
                                             Get(references[i], "title")),
                references_url |-> Get(references[i], "url"),
                references_text |-> Get(references[i], "text"),
                references_markdown |-> ai_markdown,
                ai_mode_summary |-> "",
                ai_mode_citations_count |-> "",
                ai_mode_primary_domain |-> "",
                ai_mode_primary_url |-> ""]]

\* The body of `for item in items` in the dashboard's extract_ai_mode_rows:
\* as in the scraper, but the row of a reference has no ai_mode_* key.
DashboardAiModeItemRows(item, result_keyword) ==
    IF Get(item, "type") # "ai_overview" THEN <<>>
    ELSE
    LET ai_markdown == OrElse(Get(item, "markdown"), "")
        references == GetList(item, "references")
    IN
    IF references = NoneList THEN Raised
    ELSE
    LET citations_count == Len(references)
        primary_domain == IF references # <<>>
                          THEN OrElse(Get(references[1], "domain"), "") ELSE ""
        primary_url == IF references # <<>>
                       THEN OrElse(Get(references[1], "url"), "") ELSE ""
    IN  <<[result_type |-> "ai_mode",
           keyword |-> result_keyword,
           ai_mode_summary |-> ai_markdown,
           ai_mode_citations_count |-> citations_count,
           ai_mode_primary_domain |-> primary_domain,
           ai_mode_primary_url |-> primary_url,
           domain |-> primary_domain]>>
        \o [i \in 1..Len(references) |->
               [result_type |-> "ai_mode",
                keyword |-> result_keyword,
                domain |-> Get(references[i], "domain"),
                references_source |-> OrElse(Get(references[i], "source"),
                                             Get(references[i], "title")),
                references_url |-> Get(references[i], "url"),
                references_text |-> Get(references[i], "text"),
                references_markdown |-> ai_markdown]]

\* The rows one item gives to the extraction function for kind.
ItemRows(kind, item, result_keyword) ==
    CASE kind = "ai_overview" -> AiOverviewItemRows(item, result_keyword)
      [] kind = "organic" -> OrganicItemRows(item, result_keyword)
      [] kind = "ai_mode" -> AiModeItemRows(item, result_keyword)
      [] kind = "dashboard_ai_mode" -> DashboardAiModeItemRows(item, result_keyword)

\* The loops over tasks[].result[].items[], the same in the three extraction
\* functions, with the keyword in force at each item.
WalkItems(response_dict, keyword_fallback, kind) ==
    LET tasks == GetList(response_dict, "tasks")
        TaskRows(task) ==
            LET task_keyword == OrElse(Get(GetDict(task, "data"), "keyword"), keyword_fallback)
                results == GetList(task, "result")
                ResultRows(result) ==
                    LET result_keyword == OrElse(Get(result, "keyword"), task_keyword)
                        items == GetList(result, "items")
                    IN  ForEach(items, [i \in 1..Len(items) |->
                                     ItemRows(kind, items[i], result_keyword)])
            IN  ForEach(results, [r \in 1..Len(results) |-> ResultRows(results[r])])
    IN  ForEach(tasks, [t \in 1..Len(tasks) |-> TaskRows(tasks[t])])

_extract_ai_overview_rows(response_dict, keyword_fallback) ==
    WalkItems(response_dict, keyword_fallback, "ai_overview")

_extract_organic_rows(response_dict, keyword_fallback) ==
    WalkItems(response_dict, keyword_fallback, "organic")

_extract_ai_mode_rows(response_dict, keyword_fallback) ==
    WalkItems(response_dict, keyword_fallback, "ai_mode")

\* The extraction functions of the dashboard (app.py): the first two are the
\* scraper's, statement for statement.
extract_ai_overview_rows(response_dict, keyword_fallback) ==
    WalkItems(response_dict, keyword_fallback, "ai_overview")

extract_organic_rows(response_dict, keyword_fallback) ==
    WalkItems(response_dict, keyword_fallback, "organic")

extract_ai_mode_rows(response_dict, keyword_fallback) ==
    WalkItems(response_dict, keyword_fallback, "dashboard_ai_mode")

(***************************************************************************)
(* The provider's answers.                                                 *)
(***************************************************************************)
\* {}: a JSON body that is an empty object
DocEmpty == EmptyDict

\* one organic item; the task echoes the keyword
DocOrganic(kw) ==
    [tasks |-> <<[data |-> [keyword |-> kw],
                  result |-> <<[items |-> <<[type |-> "organic",
                                             domain |-> "example.com",
                                             url |-> "https://example.com/",
                                             title |-> "Example"]>>]>>]>>]

\* one organic item and one AI-overview item with two references; no keyword
\* in the document, so the fallback keyword is used
DocMixed ==
    [tasks |-> <<[result |-> <<[items |->
        <<[type |-> "organic", domain |-> "example.com"],
          [type |-> "ai_overview",
           markdown |-> "summary",
           references |-> <<[domain |-> "a.org", source |-> "A", url |-> "https://a.org/"],
                            [domain |-> "b.org", title |-> "B"]>>]>>]>>]>>]

Bodies(kw) == {DocEmpty, DocOrganic(kw), DocMixed}

\* What one request attempt can end in:
\*   ok            status 200 and response.json() returns a document
\*   bad_json      status 200 and response.json() raises a decoding error
\*                 (a ValueError, which no except clause of the fetch catches)
\*   rate_limited  status 429
\*   http_error    any other status, and response.text() returns the error body
\*   body_lost     any other status, and response.text() raises because the
\*                 connection broke while the error body was read (an
\*                 aiohttp.ClientPayloadError, which is a ClientError)
\*   timeout       asyncio.TimeoutError
\*   client_error  aiohttp.ClientError
Outcomes == {"ok", "bad_json", "rate_limited", "http_error", "body_lost",
             "timeout", "client_error"}

\* The outcomes the except clauses of the loop catch.
Caught == {"body_lost", "timeout", "client_error"}


(***************************************************************************)
(* Fetch-with-retry: the decisions of the retry loop, shared by            *)
(* fetch_serp_data and fetch_ai_mode_data (the two loops are the same      *)
(* text).                                                                  *)
(***************************************************************************)
\* Delay growing linearly: 2 * attempt for 2 ** attempt.
DelayLinear(att) == RETRY_DELAY_BASE * (2 * att)

\* delay = RETRY_DELAY_BASE * (2 ** attempt)
Delay(att) == RETRY_DELAY_BASE * 2^att

\* AttemptStep with the last timeout or transport error raised again instead
\* of answered with Failure.
AttemptStepReraise(o, att) ==
    CASE o = "ok" -> "return_data"
      [] o = "bad_json" -> "raise"
      [] o = "rate_limited" -> "sleep"
      [] o = "http_error" -> "return_none"
      [] o \in Caught ->
            IF att < MAX_RETRIES - 1 THEN "sleep" ELSE "raise"

\* What the loop body does with the outcome of attempt att:
\*   sleep (then continue), return_data, return_none, or raise.
AttemptStep(o, att) ==
    CASE o = "ok" -> "return_data"
      [] o = "bad_json" -> "raise"
      [] o = "rate_limited" -> "sleep"
      [] o = "http_error" -> "return_none"
      [] o \in Caught ->
            IF att < MAX_RETRIES - 1 THEN "sleep" ELSE "return_none"

\* AfterSleep allowing one attempt more than MAX_RETRIES.
AfterSleepOneMore(att) == IF att + 1 < MAX_RETRIES + 1 THEN "retry" ELSE "return_none"

\* continue: the next iteration of range(MAX_RETRIES), or the return after the loop
AfterSleep(att) == IF att + 1 < MAX_RETRIES THEN "retry" ELSE "return_none"

Tasks == 1..Len(keywords)

Holding(k) == pc[k] \in {"primary_request", "primary_backoff",
                         "ai_mode_request", "ai_mode_backoff"}

Unfinished(k) == pc[k] \in {"primary_pending", "primary_request", "primary_backoff",
                            "ai_mode_pending", "ai_mode_request", "ai_mode_backoff"}

Unset == [tag |-> "unset", data |-> EmptyDict]
ReturnedNone == [tag |-> "None", data |-> EmptyDict]
ReturnedData(d) == [tag |-> "data", data |-> d]

\* if serp_response: / if ai_mode_response:
ResponseTruthy(r) == r.tag = "data" /\ Truthy(r.data)

(***************************************************************************)
(* The log of one fetch, kept when trace is set: the endpoint, the permits *)
(* taken and given back, the requests posted, the delays slept, the kind   *)
(* of the attempts that failed (none, one kind, or mixed), and the lines   *)
(* the fetch printed to sys.stderr.  It records what the fetch did and     *)
(* decides nothing.                                                        *)
(***************************************************************************)
EmptyLog == [endpoint |-> "none", acquired |-> 0, released |-> 0, tries |-> 0,
             waits |-> <<>>, seen |-> "none", last |-> "none", errors |-> <<>>]

SeenAfter(old, o) == IF old = "none" \/ old = o THEN o ELSE "mixed"

\* print(..., file=sys.stderr) of the return that follows outcome o
StderrLine(o) ==
    CASE o = "http_error" -> "API error"
      [] o = "timeout" -> "Timeout"
      [] o \in {"client_error", "body_lost"} -> "Connection error"

LogPost(k) ==
    fetch_log' = IF trace THEN [fetch_log EXCEPT ![k].tries = @ + 1] ELSE fetch_log

LogFirstPost(k, endpoint) ==
    fetch_log' = IF trace
                 THEN [fetch_log EXCEPT ![k] = [EmptyLog EXCEPT !.endpoint = endpoint,
                                                                !.acquired = 1,
                                                                !.tries = 1]]
                 ELSE fetch_log

\* the permit was taken and given back without a request
LogRefused(k, endpoint) ==
    fetch_log' = IF trace
                 THEN [fetch_log EXCEPT ![k] = [EmptyLog EXCEPT !.endpoint = endpoint,
                                                                !.acquired = 1,
                                                                !.released = 1]]
                 ELSE fetch_log

LogOutcome(k, o, step) ==
    fetch_log' = IF trace
                 THEN [fetch_log EXCEPT
                         ![k].waits = IF step = "sleep" THEN Append(@, Delay(attempt[k])) ELSE @,
                         ![k].seen = IF o = "ok" THEN @ ELSE SeenAfter(@, o),
                         ![k].last = o,
                         ![k].released = IF step = "sleep" THEN @ ELSE @ + 1,
                         ![k].errors = IF step = "return_none"
                                       THEN Append(@, StderrLine(o)) ELSE @]
                 ELSE fetch_log

\* the async with block is left without a further attempt
LogRelease(k) ==
    fetch_log' = IF trace THEN [fetch_log EXCEPT ![k].released = @ + 1] ELSE fetch_log

NothingCounted == [completed |-> 0, failed |-> 0, ai_overview_rows |-> 0,
                   organic_rows |-> 0, ai_mode_rows |-> 0]

\* The exception an attempt ends with, by its outcome; session_closed is a
\* post refused by a session that is closed ("Session is closed").
ExceptionOf(o) ==
    CASE o = "bad_json" -> "ValueError"
      [] o = "timeout" -> "TimeoutError"
      [] o \in {"client_error", "body_lost"} -> "ClientError"
      [] o = "session_closed" -> "RuntimeError"
      [] OTHER -> "none"

(***************************************************************************)
(* Text, files and processes.  A line of a text file is a sequence of      *)
(* characters, a keyword is a string, a file is a record with exists.      *)
(***************************************************************************)
Whitespace == {" ", "\t", "\n"}

RECURSIVE LStrip(_)
LStrip(line) ==
    IF line # <<>> /\ Head(line) \in Whitespace THEN LStrip(Tail(line)) ELSE line

RECURSIVE RStrip(_)
RStrip(line) ==
    IF line # <<>> /\ line[Len(line)] \in Whitespace
    THEN RStrip(SubSeq(line, 1, Len(line) - 1)) ELSE line

RECURSIVE Join(_)
Join(chars) == IF chars = <<>> THEN "" ELSE Head(chars) \o Join(Tail(chars))

\* line.strip()
Strip(line) == Join(RStrip(LStrip(line)))

NoFile == [exists |-> FALSE]

TextFile(lines) == [exists |-> TRUE, lines |-> lines]

\* The keywords of the lines with a keyword that is read again left out.
RECURSIVE StrippedUnique(_)
StrippedUnique(lines) ==
    IF lines = <<>> THEN <<>>
    ELSE LET kw == Strip(lines[Len(lines)])
             before == StrippedUnique(SubSeq(lines, 1, Len(lines) - 1))
         IN  IF kw = "" \/ \E i \in 1..Len(before) : before[i] = kw
             THEN before ELSE Append(before, kw)

RECURSIVE StrippedNonBlank(_)
StrippedNonBlank(lines) ==
    IF lines = <<>> THEN <<>>
    ELSE LET kw == Strip(Head(lines))
         IN  (IF kw # "" THEN <<kw>> ELSE <<>>) \o StrippedNonBlank(Tail(lines))

\* What _load_keywords returns; the line it prints when the file is missing
\* is written by the action that calls it.
_load_keywords(path) ==
    IF ~path.exists THEN <<>> ELSE StrippedNonBlank(path.lines)

\* A keywords file with one keyword on each line.
FileOf(kws) == TextFile([i \in 1..Len(kws) |-> <<kws[i], "\n">>])

\* The dashboard has not been started and no request attempt has an outcome
\* laid down.
NotStarted == [pc |-> "not_started"]

dashboard == <<script, audit>>

NoDashboard ==
    /\ script = <<>>
    /\ audit = NotStarted

\* The exit code of a process that has not ended, and a time not yet taken.
Running == -1
NoTime == -1

\* main() is inside asyncio.run, started from the command line at time 0, and
\* no extraction function is called on its own.
InsideMain ==
    /\ entry = "run_google_serp"
    /\ keywords_file = FileOf(keywords)
    /\ now = 0
    /\ main_pc = "batch"
    /\ start_time = 0
    /\ ts = NoTime
    /\ csv_file = NoFile
    /\ json_file = NoFile
    /\ console = <<>>
    /\ exit_code = [run_google_serp |-> Running, manage |-> Running]
    /\ document = [k \in {} |-> 0]
    /\ returned = <<>>

KeywordPool == <<"a", "b", "a", "b">>

KeywordLists == {SubSeq(KeywordPool, 1, n) : n \in 1..MaxKeywords}

InitRun ==
    /\ LOAD_GOOGLE_AI_MODE \in BOOLEAN
    /\ MAX_CONCURRENT_REQUESTS \in 1..MaxPermits
    /\ semaphore = MAX_CONCURRENT_REQUESTS
    /\ session_open = TRUE
    /\ pc = [k \in Tasks |-> "primary_pending"]
    /\ attempt = [k \in Tasks |-> 0]
    /\ posted = [k \in Tasks |-> {}]
    /\ fetch_log = [k \in Tasks |-> EmptyLog]
    /\ serp_response = [k \in Tasks |-> Unset]
    /\ ai_mode_response = [k \in Tasks |-> Unset]
    /\ rows = [k \in Tasks |-> <<>>]
    /\ counted = [k \in Tasks |-> NothingCounted]
    /\ exception = [k \in Tasks |-> "none"]
    /\ stats = [total |-> Len(keywords), completed |-> 0, failed |-> 0,
                ai_overview_rows |-> 0, organic_rows |-> 0, ai_mode_rows |-> 0]
    /\ finished = <<>>
    /\ collected = 0
    /\ all_rows = <<>>
    /\ batch = "running"
    /\ InsideMain

\* A batch over a keyword list of up to MaxKeywords keywords.
Init ==
    /\ keywords \in KeywordLists
    /\ trace = FALSE
    /\ InitRun
    /\ NoDashboard

\* A batch over [a] or [a, b], with the log of every fetch kept.
InitFetch ==
    /\ keywords \in {<<"a">>, <<"a", "b">>}
    /\ trace = TRUE
    /\ InitRun
    /\ NoDashboard

\* A batch over [a, b] that may be interrupted.
InitInterrupt ==
    /\ keywords = <<"a", "b">>
    /\ trace = FALSE
    /\ InitRun
    /\ NoDashboard

config == <<keywords, LOAD_GOOGLE_AI_MODE, MAX_CONCURRENT_REQUESTS, trace>>
scheduler == <<session_open, collected, all_rows, batch>>
\* main() and its files, and the extraction functions called on their own:
\* nothing in process_keywords_async touches them.
outside == <<entry, keywords_file, now, main_pc, start_time, ts, csv_file,
             json_file, console, exit_code, document, returned, script, audit>>

(***************************************************************************)
(* process_single_keyword, from the return of fetch_serp_data to its next  *)
(* await or its return.                                                    *)
(***************************************************************************)
\* KeywordFails with the failure counted twice (by the fetch, which is handed
\* stats, and by its caller).
KeywordFailsTwice(k) ==
    /\ stats' = [stats EXCEPT !.failed = @ + 2]
    /\ counted' = [counted EXCEPT ![k].failed = @ + 2]
    /\ pc' = [pc EXCEPT ![k] = "failed"]
    /\ finished' = Append(finished, k)
    /\ UNCHANGED <<rows, ai_mode_response, exception>>

\* else: stats.failed += 1; return rows
KeywordFails(k) ==
    /\ stats' = [stats EXCEPT !.failed = @ + 1]
    /\ counted' = [counted EXCEPT ![k].failed = @ + 1]
    /\ pc' = [pc EXCEPT ![k] = "failed"]
    /\ finished' = Append(finished, k)
    /\ UNCHANGED <<rows, ai_mode_response, exception>>

\* KeywordCompletes counting once per fetch of the keyword instead of once.
KeywordCompletesPerFetch(k, st, cn) ==
    LET n == IF "ai_mode" \in posted[k] THEN 2 ELSE 1 IN
    /\ stats' = [st EXCEPT !.completed = @ + n]
    /\ counted' = [cn EXCEPT ![k].completed = @ + n]
    /\ pc' = [pc EXCEPT ![k] = "done"]
    /\ finished' = Append(finished, k)
    /\ UNCHANGED exception

\* stats.completed += 1; return rows
KeywordCompletes(k, st, cn) ==
    /\ stats' = [st EXCEPT !.completed = @ + 1]
    /\ counted' = [cn EXCEPT ![k].completed = @ + 1]
    /\ pc' = [pc EXCEPT ![k] = "done"]
    /\ finished' = Append(finished, k)
    /\ UNCHANGED exception

\* The exception leaves the fetch and process_single_keyword: the task ends with it.
KeywordRaises(k, o) ==
    /\ pc' = [pc EXCEPT ![k] = "raised"]
    /\ exception' = [exception EXCEPT ![k] = ExceptionOf(o)]
    /\ finished' = Append(finished, k)
    /\ UNCHANGED <<stats, counted, rows, serp_response, ai_mode_response>>

\* AfterPrimary with the AI-mode fetch issued whatever LOAD_GOOGLE_AI_MODE says.
AfterPrimaryAlwaysAiMode(k, resp) ==
    /\ serp_response' = [serp_response EXCEPT ![k] = resp]
    /\ IF ResponseTruthy(resp)
       THEN LET ai_overview_rows == _extract_ai_overview_rows(resp.data, keywords[k])
                organic_rows == _extract_organic_rows(resp.data, keywords[k])
            IN  /\ rows' = [rows EXCEPT ![k] = (@ \o ai_overview_rows) \o organic_rows]
                /\ UNCHANGED ai_mode_response
                /\ stats' = [stats EXCEPT !.ai_overview_rows = @ + Len(ai_overview_rows),
                                          !.organic_rows = @ + Len(organic_rows)]
                /\ counted' = [counted EXCEPT ![k].ai_overview_rows = @ + Len(ai_overview_rows),
                                              ![k].organic_rows = @ + Len(organic_rows)]
                /\ pc' = [pc EXCEPT ![k] = "ai_mode_pending"]
                /\ UNCHANGED <<finished, exception>>
       ELSE KeywordFails(k)

\* AfterPrimary storing the keyword's row counts in stats instead of adding
\* them: what the other orchestrators added is lost.
AfterPrimaryLosesUpdates(k, resp) ==
    /\ serp_response' = [serp_response EXCEPT ![k] = resp]
    /\ IF ResponseTruthy(resp)
       THEN LET ai_overview_rows == _extract_ai_overview_rows(resp.data, keywords[k])
                organic_rows == _extract_organic_rows(resp.data, keywords[k])
                st == [stats EXCEPT !.ai_overview_rows = Len(ai_overview_rows),
                                    !.organic_rows = Len(organic_rows)]
                cn == [counted EXCEPT ![k].ai_overview_rows = @ + Len(ai_overview_rows),
                                      ![k].organic_rows = @ + Len(organic_rows)]
            IN  /\ rows' = [rows EXCEPT ![k] = (@ \o ai_overview_rows) \o organic_rows]
                /\ UNCHANGED ai_mode_response
                /\ IF LOAD_GOOGLE_AI_MODE
                   THEN /\ stats' = st
                        /\ counted' = cn
                        /\ pc' = [pc EXCEPT ![k] = "ai_mode_pending"]
                        /\ UNCHANGED <<finished, exception>>
                   ELSE KeywordCompletes(k, st, cn)
       ELSE KeywordFails(k)

\* _, serp_response = await fetch_serp_data(...): the statements that follow it
AfterPrimary(k, resp) ==
    /\ serp_response' = [serp_response EXCEPT ![k] = resp]
    /\ IF ResponseTruthy(resp)
       THEN LET ai_overview_rows == _extract_ai_overview_rows(resp.data, keywords[k])
                organic_rows == _extract_organic_rows(resp.data, keywords[k])
                st == [stats EXCEPT !.ai_overview_rows = @ + Len(ai_overview_rows),
                                    !.organic_rows = @ + Len(organic_rows)]
                cn == [counted EXCEPT ![k].ai_overview_rows = @ + Len(ai_overview_rows),
                                      ![k].organic_rows = @ + Len(organic_rows)]
            IN  /\ rows' = [rows EXCEPT ![k] = (@ \o ai_overview_rows) \o organic_rows]
                /\ UNCHANGED ai_mode_response
                /\ IF LOAD_GOOGLE_AI_MODE
                   THEN /\ stats' = st
                        /\ counted' = cn
                        /\ pc' = [pc EXCEPT ![k] = "ai_mode_pending"]
                        /\ UNCHANGED <<finished, exception>>
                   ELSE KeywordCompletes(k, st, cn)
       ELSE KeywordFails(k)

\* AfterAiMode with a failed AI-mode fetch counted as a failure of the keyword.
AfterAiModeFailsKeyword(k, resp) ==
    /\ ai_mode_response' = [ai_mode_response EXCEPT ![k] = resp]
    /\ UNCHANGED serp_response
    /\ IF ResponseTruthy(resp)
       THEN LET ai_mode_rows == _extract_ai_mode_rows(resp.data, keywords[k])
            IN  /\ rows' = [rows EXCEPT ![k] = @ \o ai_mode_rows]
                /\ KeywordCompletes(k,
                       [stats EXCEPT !.ai_mode_rows = @ + Len(ai_mode_rows)],
                       [counted EXCEPT ![k].ai_mode_rows = @ + Len(ai_mode_rows)])
       ELSE /\ stats' = [stats EXCEPT !.failed = @ + 1]
            /\ counted' = [counted EXCEPT ![k].failed = @ + 1]
            /\ pc' = [pc EXCEPT ![k] = "failed"]
            /\ finished' = Append(finished, k)
            /\ UNCHANGED <<rows, exception>>

\* AfterAiMode returning no rows at all when the AI-mode fetch failed.
AfterAiModeDropsRows(k, resp) ==
    /\ ai_mode_response' = [ai_mode_response EXCEPT ![k] = resp]
    /\ UNCHANGED serp_response
    /\ IF ResponseTruthy(resp)
       THEN LET ai_mode_rows == _extract_ai_mode_rows(resp.data, keywords[k])
            IN  /\ rows' = [rows EXCEPT ![k] = @ \o ai_mode_rows]
                /\ KeywordCompletes(k,
                       [stats EXCEPT !.ai_mode_rows = @ + Len(ai_mode_rows)],
                       [counted EXCEPT ![k].ai_mode_rows = @ + Len(ai_mode_rows)])
       ELSE /\ rows' = [rows EXCEPT ![k] = <<>>]
            /\ KeywordCompletes(k, stats, counted)

\* AfterAiMode starting the keyword over when the AI-mode fetch failed.
AfterAiModeStartsOver(k, resp) ==
    /\ ai_mode_response' = [ai_mode_response EXCEPT ![k] = resp]
    /\ UNCHANGED serp_response
    /\ IF ResponseTruthy(resp)
       THEN LET ai_mode_rows == _extract_ai_mode_rows(resp.data, keywords[k])
            IN  /\ rows' = [rows EXCEPT ![k] = @ \o ai_mode_rows]
                /\ KeywordCompletes(k,
                       [stats EXCEPT !.ai_mode_rows = @ + Len(ai_mode_rows)],
                       [counted EXCEPT ![k].ai_mode_rows = @ + Len(ai_mode_rows)])
       ELSE /\ pc' = [pc EXCEPT ![k] = "primary_pending"]
            /\ UNCHANGED <<rows, stats, counted, finished, exception>>

\* _, ai_mode_response = await fetch_ai_mode_data(...): the statements that follow it
AfterAiMode(k, resp) ==
    /\ ai_mode_response' = [ai_mode_response EXCEPT ![k] = resp]
    /\ UNCHANGED serp_response
    /\ IF ResponseTruthy(resp)
       THEN LET ai_mode_rows == _extract_ai_mode_rows(resp.data, keywords[k])
            IN  /\ rows' = [rows EXCEPT ![k] = @ \o ai_mode_rows]
                /\ KeywordCompletes(k,
                       [stats EXCEPT !.ai_mode_rows = @ + Len(ai_mode_rows)],
                       [counted EXCEPT ![k].ai_mode_rows = @ + Len(ai_mode_rows)])
       ELSE /\ UNCHANGED rows
            /\ KeywordCompletes(k, stats, counted)

(***************************************************************************)
(* The retry loop of the fetch to endpoint ("organic": fetch_serp_data,     *)
(* "ai_mode": fetch_ai_mode_data).  Acquire enters the async with block    *)
(* and posts attempt 0; Responded and Woke are the loop body after the     *)
(* response and after the backoff sleep.  The permit is released on every  *)
(* way out of the async with block.                                        *)
(***************************************************************************)
PendingState(endpoint) == IF endpoint = "organic" THEN "primary_pending" ELSE "ai_mode_pending"
RequestState(endpoint) == IF endpoint = "organic" THEN "primary_request" ELSE "ai_mode_request"
BackoffState(endpoint) == IF endpoint = "organic" THEN "primary_backoff" ELSE "ai_mode_backoff"

\* The caller's continuation once the fetch to endpoint has returned resp.
After(endpoint, k, resp) ==
    IF endpoint = "organic" THEN AfterPrimary(k, resp) ELSE AfterAiMode(k, resp)

\* Acquire without the wait for a free permit.
AcquireUnbounded(k, endpoint) ==
    /\ pc[k] = PendingState(endpoint)
    /\ IF session_open
       THEN /\ semaphore' = semaphore - 1
            /\ pc' = [pc EXCEPT ![k] = RequestState(endpoint)]
            /\ attempt' = [attempt EXCEPT ![k] = 0]
            /\ posted' = [posted EXCEPT ![k] = @ \cup {endpoint}]
            /\ LogFirstPost(k, endpoint)
            /\ UNCHANGED <<serp_response, ai_mode_response, rows, counted,
                           exception, stats, finished>>
       ELSE /\ KeywordRaises(k, "session_closed")
            /\ LogRefused(k, endpoint)
            /\ UNCHANGED <<semaphore, attempt, posted>>
    /\ UNCHANGED <<config, outside, scheduler>>

\* Acquire posting on the session whether it is open or closed.
AcquireIgnoresClosed(k, endpoint) ==
    /\ pc[k] = PendingState(endpoint)
    /\ semaphore > 0
    /\ semaphore' = semaphore - 1
    /\ pc' = [pc EXCEPT ![k] = RequestState(endpoint)]
    /\ attempt' = [attempt EXCEPT ![k] = 0]
    /\ posted' = [posted EXCEPT ![k] = @ \cup {endpoint}]
    /\ LogFirstPost(k, endpoint)
    /\ UNCHANGED <<config, outside, scheduler, serp_response, ai_mode_response, rows,
                   counted, exception, stats, finished>>

\* Acquire with the AI-mode request posted at once, without a permit.
AcquireAiModeUnqueued(k, endpoint) ==
    /\ pc[k] = PendingState(endpoint)
    /\ endpoint = "organic" => semaphore > 0
    /\ IF session_open
       THEN /\ semaphore' = IF endpoint = "organic" THEN semaphore - 1 ELSE semaphore
            /\ pc' = [pc EXCEPT ![k] = RequestState(endpoint)]
            /\ attempt' = [attempt EXCEPT ![k] = 0]
            /\ posted' = [posted EXCEPT ![k] = @ \cup {endpoint}]
            /\ LogFirstPost(k, endpoint)
            /\ UNCHANGED <<serp_response, ai_mode_response, rows, counted,
                           exception, stats, finished>>
       ELSE /\ KeywordRaises(k, "session_closed")
            /\ LogRefused(k, endpoint)
            /\ UNCHANGED <<semaphore, attempt, posted>>
    /\ UNCHANGED <<config, outside, scheduler>>

\* async with semaphore: a free permit is taken and attempt 0 is posted.  A
\* session that is closed refuses the post with RuntimeError, which no except
\* clause catches: it leaves the async with block (the permit is given back)
\* and the orchestrator.
Acquire(k, endpoint) ==
    /\ pc[k] = PendingState(endpoint)
    /\ semaphore > 0
    /\ IF session_open
       THEN /\ semaphore' = semaphore - 1
            /\ pc' = [pc EXCEPT ![k] = RequestState(endpoint)]
            /\ attempt' = [attempt EXCEPT ![k] = 0]
            /\ posted' = [posted EXCEPT ![k] = @ \cup {endpoint}]
            /\ LogFirstPost(k, endpoint)
            /\ UNCHANGED <<serp_response, ai_mode_response, rows, counted,
                           exception, stats, finished>>
       ELSE /\ KeywordRaises(k, "session_closed")
            /\ LogRefused(k, endpoint)
            /\ UNCHANGED <<semaphore, attempt, posted>>
    /\ UNCHANGED <<config, outside, scheduler>>

\* Responded with the caller's statements run inside the async with block
\* when the fetch has data: the permit is still held when they are over.
RespondedKeepsPermit(k, endpoint) ==
    /\ pc[k] = RequestState(endpoint)
    /\ \E o \in Outcomes :
         LET step == AttemptStep(o, attempt[k]) IN
         /\ CASE step = "sleep" ->
                   /\ LogOutcome(k, o, step)
                   /\ pc' = [pc EXCEPT ![k] = BackoffState(endpoint)]
                   /\ UNCHANGED <<semaphore, attempt, serp_response, ai_mode_response,
                                  rows, counted, exception, stats, finished>>
              [] step = "return_data" ->
                   /\ \E data \in Bodies(keywords[k]) :
                        After(endpoint, k, ReturnedData(data))
                   /\ fetch_log' = IF trace THEN [fetch_log EXCEPT ![k].last = o]
                                   ELSE fetch_log
                   /\ UNCHANGED semaphore
                   /\ attempt' = [attempt EXCEPT ![k] = 0]
              [] step = "return_none" ->
                   /\ LogOutcome(k, o, step)
                   /\ After(endpoint, k, ReturnedNone)
                   /\ semaphore' = semaphore + 1
                   /\ attempt' = [attempt EXCEPT ![k] = 0]
              [] step = "raise" ->
                   /\ LogOutcome(k, o, step)
                   /\ KeywordRaises(k, o)
                   /\ semaphore' = semaphore + 1
                   /\ attempt' = [attempt EXCEPT ![k] = 0]
    /\ UNCHANGED <<config, outside, scheduler, posted>>

\* Responded with every attempt that is retried counted in stats.failed.
RespondedCountsAttempts(k, endpoint) ==
    /\ pc[k] = RequestState(endpoint)
    /\ \E o \in Outcomes :
         LET step == AttemptStep(o, attempt[k]) IN
         /\ LogOutcome(k, o, step)
         /\ CASE step = "sleep" ->
                   /\ pc' = [pc EXCEPT ![k] = BackoffState(endpoint)]
                   /\ stats' = [stats EXCEPT !.failed = @ + 1]
                   /\ UNCHANGED <<semaphore, attempt, serp_response, ai_mode_response,
                                  rows, counted, exception, finished>>
              [] step = "return_data" ->
                   /\ \E data \in Bodies(keywords[k]) :
                        After(endpoint, k, ReturnedData(data))
                   /\ semaphore' = semaphore + 1
                   /\ attempt' = [attempt EXCEPT ![k] = 0]
              [] step = "return_none" ->
                   /\ After(endpoint, k, ReturnedNone)
                   /\ semaphore' = semaphore + 1
                   /\ attempt' = [attempt EXCEPT ![k] = 0]
              [] step = "raise" ->
                   /\ KeywordRaises(k, o)
                   /\ semaphore' = semaphore + 1
                   /\ attempt' = [attempt EXCEPT ![k] = 0]
    /\ UNCHANGED <<config, outside, scheduler, posted>>

\* the response of one attempt arrives (or the attempt raises)
Responded(k, endpoint) ==
    /\ pc[k] = RequestState(endpoint)
    /\ \E o \in Outcomes :
         LET step == AttemptStep(o, attempt[k]) IN
         /\ LogOutcome(k, o, step)
         /\ CASE step = "sleep" ->
                   /\ pc' = [pc EXCEPT ![k] = BackoffState(endpoint)]
                   /\ UNCHANGED <<semaphore, attempt, serp_response, ai_mode_response,
                                  rows, counted, exception, stats, finished>>
              [] step = "return_data" ->
                   /\ \E data \in Bodies(keywords[k]) :
                        After(endpoint, k, ReturnedData(data))
                   /\ semaphore' = semaphore + 1
                   /\ attempt' = [attempt EXCEPT ![k] = 0]
              [] step = "return_none" ->
                   /\ After(endpoint, k, ReturnedNone)
                   /\ semaphore' = semaphore + 1
                   /\ attempt' = [attempt EXCEPT ![k] = 0]
              [] step = "raise" ->
                   /\ KeywordRaises(k, o)
                   /\ semaphore' = semaphore + 1
                   /\ attempt' = [attempt EXCEPT ![k] = 0]
    /\ UNCHANGED <<config, outside, scheduler, posted>>

\* Woke giving the permit back before each retry, to queue for one again.
WokeRequeues(k, endpoint) ==
    /\ pc[k] = BackoffState(endpoint)
    /\ IF AfterSleep(attempt[k]) = "retry"
       THEN /\ pc' = [pc EXCEPT ![k] = PendingState(endpoint)]
            /\ semaphore' = semaphore + 1
            /\ LogRelease(k)
            /\ UNCHANGED <<attempt, serp_response, ai_mode_response, rows,
                           counted, exception, stats, finished>>
       ELSE /\ After(endpoint, k, ReturnedNone)
            /\ semaphore' = semaphore + 1
            /\ attempt' = [attempt EXCEPT ![k] = 0]
            /\ LogRelease(k)
    /\ UNCHANGED <<config, outside, scheduler, posted>>

\* asyncio.sleep(delay) is over: continue.  The next attempt is posted, or
\* refused with RuntimeError by a session that is closed; after the last
\* attempt the loop is over and the fetch returns (keyword, None).
Woke(k, endpoint) ==
    /\ pc[k] = BackoffState(endpoint)
    /\ IF AfterSleep(attempt[k]) = "retry"
       THEN IF session_open
            THEN /\ attempt' = [attempt EXCEPT ![k] = @ + 1]
                 /\ pc' = [pc EXCEPT ![k] = RequestState(endpoint)]
                 /\ LogPost(k)
                 /\ UNCHANGED <<semaphore, serp_response, ai_mode_response, rows,
                                counted, exception, stats, finished>>
            ELSE /\ KeywordRaises(k, "session_closed")
                 /\ semaphore' = semaphore + 1
                 /\ attempt' = [attempt EXCEPT ![k] = 0]
                 /\ LogRelease(k)
       ELSE /\ After(endpoint, k, ReturnedNone)
            /\ semaphore' = semaphore + 1
            /\ attempt' = [attempt EXCEPT ![k] = 0]
            /\ LogRelease(k)
    /\ UNCHANGED <<config, outside, scheduler, posted>>

(***************************************************************************)
(* fetch_serp_data                                                         *)
(***************************************************************************)
AcquirePrimary(k) == Acquire(k, "organic")

PrimaryResponse(k) == Responded(k, "organic")

PrimaryWake(k) == Woke(k, "organic")

(***************************************************************************)
(* fetch_ai_mode_data                                                      *)
(***************************************************************************)
AcquireAiMode(k) == Acquire(k, "ai_mode")

AiModeResponse(k) == Responded(k, "ai_mode")

AiModeWake(k) == Woke(k, "ai_mode")

(***************************************************************************)
(* process_keywords_async: the as_completed loop inside the session's      *)
(* async with block, and the ways out of it.                               *)
(***************************************************************************)
\* The result with the rows of the orchestrators in done placed in input order.
InInputOrder(done) ==
    ConcatAll([j \in 1..Len(keywords) |-> IF j \in done THEN rows[j] ELSE <<>>])

\* Collect assigning the keyword's rows to the result instead of extending it.
CollectOverwrites ==
    /\ batch = "running"
    /\ collected < Len(finished)
    /\ LET k == finished[collected + 1] IN
       IF pc[k] = "raised"
       THEN /\ batch' = "raised"
            /\ session_open' = FALSE
            /\ UNCHANGED <<collected, all_rows>>
       ELSE /\ all_rows' = rows[k]
            /\ collected' = collected + 1
            /\ IF collected + 1 = Len(keywords)
               THEN batch' = "done" /\ session_open' = FALSE
               ELSE UNCHANGED <<batch, session_open>>
    /\ UNCHANGED <<config, outside, semaphore, pc, attempt, posted, fetch_log, serp_response,
                   ai_mode_response, rows, counted, exception, stats, finished>>

\* Collect leaving the loop at the first keyword that returns no rows.
CollectStopsOnEmpty ==
    /\ batch = "running"
    /\ collected < Len(finished)
    /\ LET k == finished[collected + 1] IN
       IF pc[k] = "raised"
       THEN /\ batch' = "raised"
            /\ session_open' = FALSE
            /\ UNCHANGED <<collected, all_rows>>
       ELSE /\ all_rows' = all_rows \o rows[k]
            /\ collected' = collected + 1
            /\ IF collected + 1 = Len(keywords) \/ rows[k] = <<>>
               THEN batch' = "done" /\ session_open' = FALSE
               ELSE UNCHANGED <<batch, session_open>>
    /\ UNCHANGED <<config, outside, semaphore, pc, attempt, posted, fetch_log, serp_response,
                   ai_mode_response, rows, counted, exception, stats, finished>>

\* Collect placing each keyword's rows at the keyword's place in the input.
CollectInInputOrder ==
    /\ batch = "running"
    /\ collected < Len(finished)
    /\ LET k == finished[collected + 1] IN
       IF pc[k] = "raised"
       THEN /\ batch' = "raised"
            /\ session_open' = FALSE
            /\ UNCHANGED <<collected, all_rows>>
       ELSE /\ all_rows' = InInputOrder({finished[i] : i \in 1..(collected + 1)})
            /\ collected' = collected + 1
            /\ IF collected + 1 = Len(keywords)
               THEN batch' = "done" /\ session_open' = FALSE
               ELSE UNCHANGED <<batch, session_open>>
    /\ UNCHANGED <<config, outside, semaphore, pc, attempt, posted, fetch_log, serp_response,
                   ai_mode_response, rows, counted, exception, stats, finished>>

\* keyword_rows = await coro, for the task that finished next, and
\* all_rows.extend(keyword_rows); after the last task the async with block
\* ends and the session is closed.  A task that ended with an exception
\* re-raises it here: the exception leaves the async with block, which closes
\* the session, and then process_keywords_async.
Collect ==
    /\ batch = "running"
    /\ collected < Len(finished)
    /\ LET k == finished[collected + 1] IN
       IF pc[k] = "raised"
       THEN /\ batch' = "raised"
            /\ session_open' = FALSE
            /\ UNCHANGED <<collected, all_rows>>
       ELSE /\ all_rows' = all_rows \o rows[k]
            /\ collected' = collected + 1
            /\ IF collected + 1 = Len(keywords)
               THEN batch' = "done" /\ session_open' = FALSE
               ELSE UNCHANGED <<batch, session_open>>
    /\ UNCHANGED <<config, outside, semaphore, pc, attempt, posted, fetch_log, serp_response,
                   ai_mode_response, rows, counted, exception, stats, finished>>

\* Interrupt that leaves the batch without closing the session.
InterruptLeavesSessionOpen ==
    /\ batch = "running"
    /\ batch' = "interrupted"
    /\ UNCHANGED <<config, outside, session_open, collected, all_rows, semaphore, pc, attempt,
                   posted, fetch_log, serp_response, ai_mode_response, rows,
                   counted, exception, stats, finished>>

\* An interrupt of the process (KeyboardInterrupt under asyncio.run) reaches
\* process_keywords_async while it waits in await coro: the exception leaves
\* the async with block, which closes the session and its connector, and then
\* process_keywords_async, whose result is lost.
Interrupt ==
    /\ batch = "running"
    /\ batch' = "interrupted"
    /\ session_open' = FALSE
    /\ UNCHANGED <<config, outside, collected, all_rows, semaphore, pc, attempt,
                   posted, fetch_log, serp_response, ai_mode_response, rows,
                   counted, exception, stats, finished>>

\* Cancel for a fetch that took its permit with acquire() and gives it back
\* with release() after the loop, without a with block: the CancelledError
\* leaves the fetch with the permit.
CancelKeepsPermit(k) ==
    /\ batch \in {"raised", "interrupted"}
    /\ Unfinished(k)
    /\ pc' = [pc EXCEPT ![k] = "cancelled"]
    /\ attempt' = [attempt EXCEPT ![k] = 0]
    /\ UNCHANGED <<semaphore, fetch_log>>
    /\ UNCHANGED <<config, outside, scheduler, posted, serp_response, ai_mode_response,
                   rows, counted, exception, stats, finished>>

\* asyncio.run, once process_keywords_async was left by an exception or an
\* interrupt, cancels the tasks still pending: CancelledError is raised at the
\* task's await and leaves the async with block of the semaphore, which gives
\* the permit back.  Until it is cancelled a task may still be run by the
\* event loop.
Cancel(k) ==
    /\ batch \in {"raised", "interrupted"}
    /\ Unfinished(k)
    /\ pc' = [pc EXCEPT ![k] = "cancelled"]
    /\ attempt' = [attempt EXCEPT ![k] = 0]
    /\ IF Holding(k)
       THEN semaphore' = semaphore + 1 /\ LogRelease(k)
       ELSE UNCHANGED <<semaphore, fetch_log>>
    /\ UNCHANGED <<config, outside, scheduler, posted, serp_response, ai_mode_response,
                   rows, counted, exception, stats, finished>>

Next ==
    \/ \E k \in Tasks : AcquirePrimary(k)
    \/ \E k \in Tasks : PrimaryResponse(k)
    \/ \E k \in Tasks : PrimaryWake(k)
    \/ \E k \in Tasks : AcquireAiMode(k)
    \/ \E k \in Tasks : AiModeResponse(k)
    \/ \E k \in Tasks : AiModeWake(k)
    \/ Collect
    \/ \E k \in Tasks : Cancel(k)

\* The steps of a batch that the user may interrupt.
NextInterruptible ==
    \/ Next
    \/ Interrupt

\* The batch, for every configuration and keyword list within the bounds.
Spec == Init /\ [][Next]_vars

\* What the event loop guarantees a batch that nothing interrupts: a posted
\* request gets its response or its error (the ClientTimeout bounds it), a
\* backoff sleep ends, the as_completed loop is resumed when a task has
\* finished, asyncio.run cancels the tasks left pending, and the semaphore
\* wakes its waiters in the order they came, so that no waiter is passed over
\* for ever although permits keep being given back.
Fairness ==
    /\ \A k \in 1..MaxKeywords :
          /\ SF_vars(k \in Tasks /\ AcquirePrimary(k))
          /\ WF_vars(k \in Tasks /\ PrimaryResponse(k))
          /\ WF_vars(k \in Tasks /\ PrimaryWake(k))
          /\ SF_vars(k \in Tasks /\ AcquireAiMode(k))
          /\ WF_vars(k \in Tasks /\ AiModeResponse(k))
          /\ WF_vars(k \in Tasks /\ AiModeWake(k))
          /\ WF_vars(k \in Tasks /\ Cancel(k))
    /\ WF_vars(Collect)

\* The batch run by a fair event loop.
SpecLive == Init /\ [][Next]_vars /\ Fairness

\* The batch with the log of every fetch kept.
SpecFetch == InitFetch /\ [][Next]_vars

\* The batch over [a, b], which an interrupt may end at any point.
SpecInterrupt == InitInterrupt /\ [][NextInterruptible]_vars

(***************************************************************************)
(* The result sink: _write_unified_csv and _write_json.                    *)
(***************************************************************************)
\* The columns without those of the AI-mode rows.
FieldnamesWithoutAiMode ==
    <<"result_type", "keyword", "domain", "page", "rank_group", "rank_absolute",
      "position", "url", "title", "description", "extended_snippet", "breadcrumb",
      "website_name", "references_source", "references_url", "references_text",
      "references_markdown">>

UNIFIED_FIELDNAMES ==
    <<"result_type", "keyword", "domain", "page", "rank_group", "rank_absolute",
      "position", "url", "title", "description", "extended_snippet", "breadcrumb",
      "website_name", "references_source", "references_url", "references_text",
      "references_markdown", "ai_mode_summary", "ai_mode_citations_count",
      "ai_mode_primary_domain", "ai_mode_primary_url">>

Columns == {UNIFIED_FIELDNAMES[i] : i \in 1..Len(UNIFIED_FIELDNAMES)}

Digits == <<"0", "1", "2", "3", "4", "5", "6", "7", "8", "9">>

\* str(n) of a natural number
RECURSIVE Str(_)
Str(n) == IF n < 10 THEN Digits[n + 1] ELSE Str(n \div 10) \o Digits[(n % 10) + 1]

\* The one value of a row that is a number is len(references) in the summary
\* row of _extract_ai_mode_rows, the row that has no references_url; the
\* reference rows hold "" under the same key.
HoldsNumber(row, k) ==
    /\ k = "ai_mode_citations_count"
    /\ k \in DOMAIN row
    /\ "references_url" \notin DOMAIN row

\* One field of the mapping handed to writer.writerow, as the writer puts it
\* in the file: "" for a column the row lacks or holds None in, else the text
\* of the value.
CsvFieldKeepsNone(row, k) ==
    IF k \notin DOMAIN row THEN ""
    ELSE IF HoldsNumber(row, k) THEN Str(row[k])
    ELSE row[k]

CsvField(row, k) ==
    IF k \notin DOMAIN row THEN ""
    ELSE IF HoldsNumber(row, k) THEN Str(row[k])
    ELSE IF row[k] = NoneVal THEN ""
    ELSE row[k]

CsvRecord(row) == [k \in Columns |-> CsvField(row, k)]

\* One value as json.dump writes it.
JsonValue(row, k) ==
    IF HoldsNumber(row, k) THEN Str(row[k])
    ELSE IF row[k] = NoneVal THEN "null"
    ELSE "\"" \o row[k] \o "\""

\* One row as json.dump writes it: every key of the row, none added.
JsonObject(row) == [k \in DOMAIN row |-> JsonValue(row, k)]

(***************************************************************************)
(* main() of run_google_serp.py and the run command of manage.py.          *)
(***************************************************************************)
Said(by, stream, text) == [by |-> by, stream |-> stream, text |-> text]

Exit(program, code) == exit_code' = [exit_code EXCEPT ![program] = code]

\* What process_keywords_async owns.
batch_vars == <<semaphore, session_open, pc, attempt, posted, fetch_log,
                serp_response, ai_mode_response, rows, counted, exception,
                stats, finished, collected, all_rows, batch>>

files == <<csv_file, json_file>>

\* Before main() calls asyncio.run there is no semaphore, session or task.
NoBatch ==
    /\ keywords = <<>>
    /\ semaphore = MAX_CONCURRENT_REQUESTS
    /\ session_open = FALSE
    /\ pc = <<>>
    /\ attempt = <<>>
    /\ posted = <<>>
    /\ fetch_log = <<>>
    /\ serp_response = <<>>
    /\ ai_mode_response = <<>>
    /\ rows = <<>>
    /\ counted = <<>>
    /\ exception = <<>>
    /\ stats = [total |-> 0, completed |-> 0, failed |-> 0,
                ai_overview_rows |-> 0, organic_rows |-> 0, ai_mode_rows |-> 0]
    /\ finished = <<>>
    /\ collected = 0
    /\ all_rows = <<>>
    /\ batch = "not_started"

\* asyncio.run(process_keywords_async(keywords, ...)) up to its first await:
\* the semaphore, the stats, the session and one task per keyword.
StartBatch(kws) ==
    /\ keywords' = kws
    /\ semaphore' = MAX_CONCURRENT_REQUESTS
    /\ session_open' = TRUE
    /\ pc' = [k \in 1..Len(kws) |-> "primary_pending"]
    /\ attempt' = [k \in 1..Len(kws) |-> 0]
    /\ posted' = [k \in 1..Len(kws) |-> {}]
    /\ fetch_log' = [k \in 1..Len(kws) |-> EmptyLog]
    /\ serp_response' = [k \in 1..Len(kws) |-> Unset]
    /\ ai_mode_response' = [k \in 1..Len(kws) |-> Unset]
    /\ rows' = [k \in 1..Len(kws) |-> <<>>]
    /\ counted' = [k \in 1..Len(kws) |-> NothingCounted]
    /\ exception' = [k \in 1..Len(kws) |-> "none"]
    /\ stats' = [total |-> Len(kws), completed |-> 0, failed |-> 0,
                 ai_overview_rows |-> 0, organic_rows |-> 0, ai_mode_rows |-> 0]
    /\ finished' = <<>>
    /\ collected' = 0
    /\ all_rows' = <<>>
    /\ batch' = "running"

\* main(), from its start to asyncio.run or to return 1.
MainLoad ==
    /\ main_pc = "started"
    /\ LET kws == _load_keywords(keywords_file)
           not_found == IF keywords_file.exists THEN <<>>
                        ELSE <<Said("run_google_serp", "stderr", "Keywords file not found")>>
       IN  IF kws = <<>>
           THEN /\ console' = console \o not_found
                       \o <<Said("run_google_serp", "stderr", "No keywords found")>>
                /\ main_pc' = "returned"
                /\ Exit("run_google_serp", 1)
                /\ UNCHANGED <<keywords, batch_vars, start_time>>
           ELSE /\ console' = console \o not_found
                /\ start_time' = now
                /\ main_pc' = "batch"
                /\ StartBatch(kws)
                /\ UNCHANGED exit_code
    /\ UNCHANGED <<LOAD_GOOGLE_AI_MODE, MAX_CONCURRENT_REQUESTS, trace, entry,
                   keywords_file, now, ts, files, document, returned,
                   dashboard>>

\* asyncio.run re-raises what left process_keywords_async, after the tasks
\* still pending were cancelled; main() does not catch it.
MainRaises ==
    /\ main_pc = "batch"
    /\ batch \in {"raised", "interrupted"}
    /\ \A k \in Tasks : ~Unfinished(k)
    /\ main_pc' = "raised"
    /\ console' = Append(console, Said("run_google_serp", "stderr", "Traceback"))
    /\ Exit("run_google_serp", IF batch = "raised" THEN 1 ELSE 130)
    /\ UNCHANGED <<config, batch_vars, entry, keywords_file, now, start_time, ts,
                   files, document, returned,
                   dashboard>>

\* CreateOutputPaths reached however the batch ended, as under a
\* try ... finally around asyncio.run that writes what has been collected.
CreateOutputPathsAfterAbort ==
    /\ main_pc = "batch"
    /\ batch \in {"done", "raised", "interrupted"}
    /\ \A k \in Tasks : ~Unfinished(k)
    /\ ts' = now
    /\ main_pc' = "csv_open"
    /\ UNCHANGED <<config, batch_vars, entry, keywords_file, now, start_time,
                   files, console, exit_code, document, returned,
                   dashboard>>

\* asyncio.run returned all_rows: _create_output_paths
CreateOutputPaths ==
    /\ main_pc = "batch"
    /\ batch = "done"
    /\ ts' = now
    /\ main_pc' = "csv_open"
    /\ UNCHANGED <<config, batch_vars, entry, keywords_file, now, start_time,
                   files, console, exit_code, document, returned,
                   dashboard>>

\* _write_unified_csv: path.open("w") and writer.writeheader()
CsvOpen ==
    /\ main_pc = "csv_open"
    /\ csv_file' = [exists |-> TRUE, name |-> ts, header |-> UNIFIED_FIELDNAMES,
                    records |-> <<>>, closed |-> FALSE]
    /\ main_pc' = "csv"
    /\ UNCHANGED <<config, batch_vars, entry, keywords_file, now, start_time, ts,
                   json_file, console, exit_code, document, returned,
                   dashboard>>

\* _write_unified_csv: one turn of the loop over rows
CsvWriteRow ==
    /\ main_pc = "csv"
    /\ Len(csv_file.records) < Len(all_rows)
    /\ csv_file' = [csv_file EXCEPT !.records =
                       Append(@, CsvRecord(all_rows[Len(@) + 1]))]
    /\ UNCHANGED <<config, batch_vars, entry, keywords_file, now, main_pc,
                   start_time, ts, json_file, console, exit_code, document, returned,
                   dashboard>>

\* _write_unified_csv: the end of the with block
CsvClose ==
    /\ main_pc = "csv"
    /\ Len(csv_file.records) = Len(all_rows)
    /\ csv_file' = [csv_file EXCEPT !.closed = TRUE]
    /\ main_pc' = "json_open"
    /\ UNCHANGED <<config, batch_vars, entry, keywords_file, now, start_time, ts,
                   json_file, console, exit_code, document, returned,
                   dashboard>>

\* _write_json: path.open("w")
JsonOpen ==
    /\ main_pc = "json_open"
    /\ json_file' = [exists |-> TRUE, name |-> ts, rows |-> <<>>, closed |-> FALSE]
    /\ main_pc' = "json"
    /\ UNCHANGED <<config, batch_vars, entry, keywords_file, now, start_time, ts,
                   csv_file, console, exit_code, document, returned,
                   dashboard>>

\* _write_json: json.dump writes the array piece by piece, here row by row
JsonWriteRow ==
    /\ main_pc = "json"
    /\ Len(json_file.rows) < Len(all_rows)
    /\ json_file' = [json_file EXCEPT !.rows =
                        Append(@, JsonObject(all_rows[Len(@) + 1]))]
    /\ UNCHANGED <<config, batch_vars, entry, keywords_file, now, main_pc,
                   start_time, ts, csv_file, console, exit_code, document, returned,
                   dashboard>>

\* _write_json: the end of the with block
JsonClose ==
    /\ main_pc = "json"
    /\ Len(json_file.rows) = Len(all_rows)
    /\ json_file' = [json_file EXCEPT !.closed = TRUE]
    /\ main_pc' = "written"
    /\ UNCHANGED <<config, batch_vars, entry, keywords_file, now, start_time, ts,
                   csv_file, console, exit_code, document, returned,
                   dashboard>>

\* A write to the open file fails (OSError: the disk is full, the file system
\* went away): the with block closes the file with what it holds and the
\* exception leaves main().
WriteFails ==
    /\ main_pc \in {"csv", "json"}
    /\ IF main_pc = "csv"
       THEN csv_file' = [csv_file EXCEPT !.closed = TRUE] /\ UNCHANGED json_file
       ELSE json_file' = [json_file EXCEPT !.closed = TRUE] /\ UNCHANGED csv_file
    /\ main_pc' = "raised"
    /\ console' = Append(console, Said("run_google_serp", "stderr", "Traceback"))
    /\ Exit("run_google_serp", 1)
    /\ UNCHANGED <<config, batch_vars, entry, keywords_file, now, start_time, ts,
                   document, returned,
                   dashboard>>

\* main(), from the summary it prints to return 0
MainReturns ==
    /\ main_pc = "written"
    /\ main_pc' = "returned"
    /\ Exit("run_google_serp", 0)
    /\ UNCHANGED <<config, batch_vars, entry, keywords_file, now, start_time, ts,
                   files, console, document, returned,
                   dashboard>>

\* manage.py run: main() and run_scraper() up to the child process
ManageRun ==
    /\ entry = "manage"
    /\ main_pc = "not_started"
    /\ exit_code.manage = Running
    /\ \E requirements_met \in BOOLEAN :
          IF ~requirements_met
          THEN /\ console' = Append(console, Said("manage", "stdout", "Missing requirements"))
               /\ Exit("manage", 1)
               /\ UNCHANGED main_pc
          ELSE IF ~keywords_file.exists
          THEN /\ console' = Append(console, Said("manage", "stdout", "Keywords file not found"))
               /\ Exit("manage", 0)
               /\ UNCHANGED main_pc
          ELSE /\ main_pc' = "started"
               /\ UNCHANGED <<console, exit_code>>
    /\ UNCHANGED <<config, batch_vars, entry, keywords_file, now, start_time, ts,
                   files, document, returned,
                   dashboard>>

\* manage.py run: run_command returns True or False, which run_scraper drops,
\* and main() ends
ManageReturns ==
    /\ entry = "manage"
    /\ exit_code.manage = Running
    /\ exit_code.run_google_serp # Running
    /\ Exit("manage", 0)
    /\ UNCHANGED <<config, batch_vars, entry, keywords_file, now, main_pc,
                   start_time, ts, files, console, document, returned,
                   dashboard>>

\* A second passes while the program runs.
Tick ==
    /\ exit_code[entry] = Running
    /\ now < MaxClock
    /\ now' = now + 1
    /\ UNCHANGED <<config, batch_vars, entry, keywords_file, main_pc, start_time,
                   ts, files, console, exit_code, document, returned,
                   dashboard>>

\* The keywords files of the model: none, an empty one, one of blank lines,
\* and one with a keyword between blank lines and spaces.
KeywordsFiles ==
    {NoFile,
     TextFile(<<>>),
     TextFile(<< <<"\n">>, <<" ", "\t", "\n">> >>),
     TextFile(<< <<"\n">>, <<" ", "a", " ", "\n">>, <<"\n">> >>)}

\* Either program, started from the command line.
InitMain ==
    /\ entry \in {"run_google_serp", "manage"}
    /\ keywords_file \in KeywordsFiles
    /\ LOAD_GOOGLE_AI_MODE \in BOOLEAN
    /\ MAX_CONCURRENT_REQUESTS \in 1..MaxPermits
    /\ trace = FALSE
    /\ NoBatch
    /\ now = 0
    /\ main_pc = IF entry = "manage" THEN "not_started" ELSE "started"
    /\ start_time = NoTime
    /\ ts = NoTime
    /\ csv_file = NoFile
    /\ json_file = NoFile
    /\ console = <<>>
    /\ exit_code = [run_google_serp |-> Running, manage |-> Running]
    /\ document = [k \in {} |-> 0]
    /\ returned = <<>>
    /\ NoDashboard

NextMain ==
    \/ NextInterruptible
    \/ ManageRun
    \/ MainLoad
    \/ MainRaises
    \/ CreateOutputPaths
    \/ CsvOpen
    \/ CsvWriteRow
    \/ CsvClose
    \/ JsonOpen
    \/ JsonWriteRow
    \/ JsonClose
    \/ WriteFails
    \/ MainReturns
    \/ ManageReturns
    \/ Tick

\* A run of either program, from the command line to its exit code.
SpecMain == InitMain /\ [][NextMain]_vars

(***************************************************************************)
(* The extraction functions called on their own, on documents in which     *)
(* fields are absent or null.                                              *)
(***************************************************************************)
\* The fields of a provider document that a generated document may lack.
Fields ==
    {"tasks", "data", "data.keyword", "result", "result.keyword", "items",
     "organic.type", "type", "markdown", "references", "sub_items",
     "sub.markdown", "sub.references", "components", "component.markdown",
     "component.references", "domain"}

RECURSIVE SetsUpTo(_)
SetsUpTo(n) ==
    IF n = 0 THEN {{}}
    ELSE SetsUpTo(n - 1) \cup {S \cup {f} : S \in SetsUpTo(n - 1), f \in Fields}

\* One field of an object: left out, null, or with its value.
Field(absent, null, f, key, value, none) ==
    IF f \in absent THEN EmptyDict
    ELSE IF f \in null THEN key :> none
    ELSE key :> value

\* The provider's document of one task with one result of an organic item and
\* an AI-overview item (two references, one sub-item with a reference and a
\* component with a reference), without the fields in absent and with null
\* in the fields in null.
Document(absent, null) ==
    LET F(f, key, value, none) == Field(absent, null, f, key, value, none)
        ref(d) ==
            F("domain", "domain", d, NoneVal) @@ [url |-> "https://" \o d, title |-> "T"]
        component ==
            F("component.markdown", "markdown", "component text", NoneVal)
            @@ F("component.references", "references", <<ref("c.org")>>, NoneList)
        sub_item ==
            F("sub.markdown", "markdown", "sub text", NoneVal)
            @@ F("sub.references", "references", <<ref("s.org")>>, NoneList)
            @@ F("components", "components", <<component>>, NoneList)
        ai_item ==
            F("type", "type", "ai_overview", NoneVal)
            @@ F("markdown", "markdown", "summary", NoneVal)
            @@ F("references", "references", <<ref("a.org"), ref("b.org")>>, NoneList)
            @@ F("sub_items", "items", <<sub_item>>, NoneList)
        organic_item ==
            F("organic.type", "type", "organic", NoneVal)
            @@ F("domain", "domain", "example.com", NoneVal)
            @@ [title |-> "Example"]
        result ==
            F("result.keyword", "keyword", "result keyword", NoneVal)
            @@ F("items", "items", <<organic_item, ai_item>>, NoneList)
        task ==
            F("data", "data", F("data.keyword", "keyword", "task keyword", NoneVal), NoneDict)
            @@ F("result", "result", <<result>>, NoneList)
    IN  F("tasks", "tasks", <<task>>, NoneList)

Documents ==
    UNION {{Document(holes \ null, null) : null \in SUBSET holes} :
              holes \in SetsUpTo(MaxHoles)}

\* A call of an extraction function on the document: what it was given, what
\* it returned and the document as the call left it.
Call(function, result, left) ==
    [function |-> function, given |-> document, rows |-> result, left |-> left]

extraction == <<document, returned,
                   dashboard>>

\* A call that empties the document it walks.
ExtractConsumes(function, result) ==
    /\ Len(returned) < MaxCalls
    /\ document' = EmptyDict
    /\ returned' = Append(returned, Call(function, result, document'))
    /\ UNCHANGED <<config, batch_vars, entry, keywords_file, now, main_pc,
                   start_time, ts, files, console, exit_code, dashboard>>

\* A call of an extraction function: it reads the document and builds a new
\* list; nothing in it assigns to the document or to anything global.
Extract(function, result) ==
    /\ Len(returned) < MaxCalls
    /\ document' = document
    /\ returned' = Append(returned, Call(function, result, document'))
    /\ UNCHANGED <<config, batch_vars, entry, keywords_file, now, main_pc,
                   start_time, ts, files, console, exit_code, dashboard>>

ExtractAiOverview ==
    Extract("_extract_ai_overview_rows", _extract_ai_overview_rows(document, "fallback"))

ExtractOrganic ==
    Extract("_extract_organic_rows", _extract_organic_rows(document, "fallback"))

ExtractAiMode ==
    Extract("_extract_ai_mode_rows", _extract_ai_mode_rows(document, "fallback"))

InitExtract ==
    /\ document \in Documents
    /\ returned = <<>>
    /\ LOAD_GOOGLE_AI_MODE = TRUE
    /\ MAX_CONCURRENT_REQUESTS = 1
    /\ trace = FALSE
    /\ NoBatch
    /\ entry = "run_google_serp"
    /\ keywords_file = NoFile
    /\ now = 0
    /\ main_pc = "not_started"
    /\ start_time = NoTime
    /\ ts = NoTime
    /\ csv_file = NoFile
    /\ json_file = NoFile
    /\ console = <<>>
    /\ exit_code = [run_google_serp |-> Running, manage |-> Running]
    /\ NoDashboard

NextExtract ==
    \/ ExtractAiOverview
    \/ ExtractOrganic
    \/ ExtractAiMode

\* The three extraction functions, called in any order on one document.
SpecExtract == InitExtract /\ [][NextExtract]_vars

(***************************************************************************)
(* _load_keywords on its own: one keywords file, read up to MaxCalls times. *)
(***************************************************************************)
MaxLines == 3

\* The lines a keywords file is made of: blank ones, keywords with spaces and
\* tabs around and inside them, and a last line without its newline.
Lines ==
    {<<"\n">>,
     <<" ", "\t", "\n">>,
     <<"a", "\n">>,
     <<" ", "b", "\t", "\n">>,
     <<"\t", "a", " ", "b", " ", "\n">>,
     <<"b">>}

RECURSIVE TextsUpTo(_)
TextsUpTo(n) ==
    IF n = 0 THEN {<<>>}
    ELSE LET shorter == TextsUpTo(n - 1)
         IN  shorter \cup {Append(text, line) : text \in shorter, line \in Lines}

TextFiles == {NoFile} \cup {TextFile(text) : text \in TextsUpTo(MaxLines)}

\* A call of _load_keywords(KEYWORDS_FILE): the list it returns, the file as
\* the call left it, and the line on stderr when there is no file.
LoadKeywords ==
    /\ Len(returned) < MaxCalls
    /\ keywords_file' = keywords_file
    /\ returned' = Append(returned,
                          [function |-> "_load_keywords", given |-> keywords_file,
                           keywords |-> _load_keywords(keywords_file),
                           left |-> keywords_file'])
    /\ console' = IF keywords_file.exists THEN console
                  ELSE Append(console,
                              Said("run_google_serp", "stderr", "Keywords file not found"))
    /\ UNCHANGED <<config, batch_vars, entry, now, main_pc, start_time, ts,
                   files, exit_code, document, dashboard>>

InitLoad ==
    /\ keywords_file \in TextFiles
    /\ returned = <<>>
    /\ LOAD_GOOGLE_AI_MODE = TRUE
    /\ MAX_CONCURRENT_REQUESTS = 1
    /\ trace = FALSE
    /\ NoBatch
    /\ entry = "run_google_serp"
    /\ now = 0
    /\ main_pc = "not_started"
    /\ start_time = NoTime
    /\ ts = NoTime
    /\ csv_file = NoFile
    /\ json_file = NoFile
    /\ console = <<>>
    /\ exit_code = [run_google_serp |-> Running, manage |-> Running]
    /\ document = [k \in {} |-> 0]
    /\ NoDashboard

NextLoad == LoadKeywords

\* _load_keywords, called on one keywords file.
SpecLoad == InitLoad /\ [][NextLoad]_vars

(***************************************************************************)
(* The dashboard (streamlit-ai-audit/app.py): process_keywords_async takes *)
(* the keywords one after another.  The scraper and the dashboard are run  *)
(* against the same provider: script lays down, for every keyword and      *)
(* endpoint, the outcome of each request attempt, and the body of a 200    *)
(* response is the same for both.  The two programs share nothing else, so *)
(* the dashboard is run when the scraper's batch is over; no behaviour of  *)
(* either is lost by that.                                                 *)
(***************************************************************************)
Endpoints == {"organic", "ai_mode"}

\* The outcomes of the attempts of one fetch, in order; an attempt beyond the
\* end gets the last one.
Scripts ==
    {<<"ok">>,
     <<"http_error">>,
     <<"body_lost", "ok">>,
     <<"bad_json">>,
     <<"rate_limited", "timeout", "ok">>,
     <<"timeout", "client_error", "rate_limited">>}

\* The outcome of attempt att of the fetch of keyword k to endpoint.
Told(k, endpoint, att) ==
    LET outcomes == script[k][endpoint]
    IN  outcomes[IF att + 1 <= Len(outcomes) THEN att + 1 ELSE Len(outcomes)]

\* The document of a 200 response.
BodyOf(kw, endpoint) ==
    IF endpoint = "ai_mode" \/ kw = "a" THEN DocMixed ELSE DocOrganic(kw)

\* The attempt of the scraper that ends in this step ends as laid down.
AsTold(k, endpoint) ==
    /\ fetch_log'[k].last = Told(k, endpoint, attempt[k])
    /\ LET response == IF endpoint = "organic"
                       THEN serp_response'[k] ELSE ai_mode_response'[k]
       IN  response.tag = "data" => response.data = BodyOf(keywords[k], endpoint)

\* The batch of the scraper is over.
ScraperEnded == batch # "running" /\ \A k \in Tasks : ~Unfinished(k)

\* What the loop body of the dashboard's fetches does with the outcome of
\* attempt att: the else branch returns (keyword, None) without reading the
\* error body.
AuditAttemptStep(o, att) ==
    CASE o = "ok" -> "return_data"
      [] o = "bad_json" -> "raise"
      [] o = "rate_limited" -> "sleep"
      [] o \in {"http_error", "body_lost"} -> "return_none"
      [] o \in {"timeout", "client_error"} ->
            IF att < MAX_RETRIES - 1 THEN "sleep" ELSE "return_none"

\* completed += 1; progress_callback(...); the next turn of
\* `for keyword in keywords`, or the end of the session and return all_rows
AuditNextKeyword(a) ==
    IF a.i < Len(keywords)
    THEN [a EXCEPT !.completed = @ + 1, !.i = @ + 1, !.attempt = 0,
                   !.pc = "primary_pending"]
    ELSE [a EXCEPT !.completed = @ + 1, !.attempt = 0, !.session_open = FALSE,
                   !.pc = "returned"]

\* The statements of the loop body that follow the fetch to endpoint.
AuditAfter(endpoint, a, resp) ==
    LET keyword == keywords[a.i] IN
    IF endpoint = "organic"
    THEN IF ResponseTruthy(resp)
         THEN LET ai_overview_rows == extract_ai_overview_rows(resp.data, keyword)
                  organic_rows == extract_organic_rows(resp.data, keyword)
                  extended == [a EXCEPT !.all_rows = (@ \o ai_overview_rows) \o organic_rows]
              IN  IF a.fetch_ai_mode
                  THEN [extended EXCEPT !.attempt = 0, !.pc = "ai_mode_pending"]
                  ELSE AuditNextKeyword(extended)
         ELSE AuditNextKeyword(a)
    ELSE IF ResponseTruthy(resp)
         THEN AuditNextKeyword([a EXCEPT !.all_rows =
                                   @ \o extract_ai_mode_rows(resp.data, keyword)])
         ELSE AuditNextKeyword(a)

audit_frame == <<config, batch_vars, entry, keywords_file, now, main_pc, start_time,
                 ts, files, console, exit_code, document, returned, script>>

\* run_audit: process_keywords_async of the dashboard up to its first await,
\* with the scraper's cap and AI-mode setting.
AuditStart ==
    /\ audit.pc = "not_started"
    /\ script # <<>>
    /\ ScraperEnded
    /\ audit' = [pc |-> "primary_pending", i |-> 1, attempt |-> 0,
                 semaphore |-> MAX_CONCURRENT_REQUESTS, session_open |-> TRUE,
                 fetch_ai_mode |-> LOAD_GOOGLE_AI_MODE, all_rows |-> <<>>,
                 completed |-> 0, posted |-> {}]
    /\ UNCHANGED audit_frame

\* async with semaphore, and the post of attempt 0
AuditAcquire(endpoint) ==
    /\ audit.pc = PendingState(endpoint)
    /\ audit.semaphore > 0
    /\ audit' = [audit EXCEPT !.pc = RequestState(endpoint),
                              !.semaphore = @ - 1,
                              !.attempt = 0,
                              !.posted = @ \cup {<<audit.i, endpoint>>}]
    /\ UNCHANGED audit_frame

\* the response of one attempt arrives (or the attempt raises); an exception
\* of response.json() leaves the fetch, the session and process_keywords_async
AuditResponded(endpoint) ==
    /\ audit.pc = RequestState(endpoint)
    /\ LET o == Told(audit.i, endpoint, audit.attempt)
           step == AuditAttemptStep(o, audit.attempt)
           released == [audit EXCEPT !.semaphore = @ + 1]
       IN  audit' =
             CASE step = "sleep" -> [audit EXCEPT !.pc = BackoffState(endpoint)]
               [] step = "return_data" ->
                    AuditAfter(endpoint, released,
                               ReturnedData(BodyOf(keywords[audit.i], endpoint)))
               [] step = "return_none" -> AuditAfter(endpoint, released, ReturnedNone)
               [] step = "raise" ->
                    [released EXCEPT !.pc = "raised", !.session_open = FALSE]
    /\ UNCHANGED audit_frame

\* asyncio.sleep(delay) is over: continue, or return (keyword, None)
AuditWoke(endpoint) ==
    /\ audit.pc = BackoffState(endpoint)
    /\ audit' = IF AfterSleep(audit.attempt) = "retry"
                THEN [audit EXCEPT !.attempt = @ + 1, !.pc = RequestState(endpoint)]
                ELSE AuditAfter(endpoint, [audit EXCEPT !.semaphore = @ + 1],
                                ReturnedNone)
    /\ UNCHANGED audit_frame

\* The scraper and the dashboard, given the same keywords, the same settings
\* and the same provider.
InitDashboard ==
    /\ keywords \in {<<"a">>, <<"a", "b">>}
    /\ trace = TRUE
    /\ InitRun
    /\ script \in [Tasks -> [Endpoints -> Scripts]]
    /\ audit = NotStarted

NextDashboard ==
    \/ \E k \in Tasks : AcquirePrimary(k)
    \/ \E k \in Tasks : PrimaryResponse(k) /\ AsTold(k, "organic")
    \/ \E k \in Tasks : PrimaryWake(k)
    \/ \E k \in Tasks : AcquireAiMode(k)
    \/ \E k \in Tasks : AiModeResponse(k) /\ AsTold(k, "ai_mode")
    \/ \E k \in Tasks : AiModeWake(k)
    \/ Collect
    \/ \E k \in Tasks : Cancel(k)
    \/ AuditStart
    \/ \E endpoint \in Endpoints : AuditAcquire(endpoint)
    \/ \E endpoint \in Endpoints : AuditResponded(endpoint)
    \/ \E endpoint \in Endpoints : AuditWoke(endpoint)

\* The scraper's batch, then the dashboard's, on one script.
SpecDashboard == InitDashboard /\ [][NextDashboard]_vars

(***************************************************************************)
(* Properties.                                                             *)
(***************************************************************************)
\* The fetches that hold a permit: posted or sleeping in backoff.
InFlight == Cardinality({k \in Tasks : Holding(k)})

RECURSIVE SumOver(_, _)
SumOver(n, f) == IF n = 0 THEN 0 ELSE f[n] + SumOver(n - 1, f)

\* What the orchestrators together have added to counter c.
Counted(c) == SumOver(Len(keywords), [k \in Tasks |-> counted[k][c]])

\* stats holds what the orchestrators added, and nothing else.
StatsAreCounted ==
    /\ stats.total = Len(keywords)
    /\ \A c \in DOMAIN NothingCounted : stats[c] = Counted(c)

RowsOfType(rs, t) == SelectSeq(rs, LAMBDA r : r.result_type = t)

\* C1: at most MAX_CONCURRENT_REQUESTS fetches (primary and AI-mode together,
\* those sleeping in backoff included) hold a permit, and a fetch that waits
\* for a permit has not posted its request.
C1_InFlightBounded ==
    /\ InFlight <= MAX_CONCURRENT_REQUESTS
    /\ semaphore >= 0
    /\ \A k \in Tasks :
         /\ pc[k] = "primary_pending" => "organic" \notin posted[k]
         /\ pc[k] = "ai_mode_pending" => "ai_mode" \notin posted[k]

\* The pool is exhausted by a primary fetch in backoff while an AI-mode fetch
\* of another keyword waits for a permit.
C1_Witness ==
    /\ semaphore = 0
    /\ InFlight = MAX_CONCURRENT_REQUESTS
    /\ \E k, j \in Tasks : pc[k] = "ai_mode_pending" /\ pc[j] = "primary_backoff"

\* C2: whichever keywords fail by 429 exhaustion, another status, timeout or
\* transport error, no task ends with an exception and the batch is not
\* aborted; a failed fetch gives its permit back; and when the batch is done
\* every keyword was processed and collected, the result holding the rows of
\* every keyword in the order they finished.
C2_FailuresTolerated ==
    /\ \A k \in Tasks :
         pc[k] = "raised" =>
           \/ exception[k] = "ValueError"
           \/ exception[k] = "RuntimeError" /\ batch \in {"raised", "interrupted"}
    /\ batch = "raised" => \E k \in Tasks : pc[k] = "raised"
    /\ semaphore + InFlight = MAX_CONCURRENT_REQUESTS
    /\ batch = "done" =>
         /\ \A k \in Tasks : pc[k] \in {"done", "failed"}
         /\ collected = Len(keywords)
         /\ Len(finished) = Len(keywords)
         /\ all_rows = ConcatAll([i \in 1..Len(finished) |-> rows[finished[i]]])

\* Keyword 1 failed first, keyword 2 was fetched and collected after it, and
\* the batch returned keyword 2's rows.
C2_Witness ==
    /\ batch = "done"
    /\ finished = <<1, 2>>
    /\ pc[1] = "failed" /\ serp_response[1].tag = "None"
    /\ pc[2] = "done" /\ rows[2] # <<>>
    /\ all_rows = rows[2]

\* C3: a keyword whose primary fetch returned Failure (every attempt failed)
\* has added exactly 1 to failed and nothing to completed or to a row counter,
\* returns no rows, and has posted nothing to the AI-mode endpoint.
C3_PrimaryFailure ==
    /\ StatsAreCounted
    /\ \A k \in Tasks :
         serp_response[k].tag = "None" =>
           /\ counted[k] = [NothingCounted EXCEPT !.failed = 1]
           /\ rows[k] = <<>>
           /\ "ai_mode" \notin posted[k]
           /\ ai_mode_response[k] = Unset
           /\ pc[k] = "failed"

\* With AI-mode enabled, a keyword's primary fetch failed and the keyword was
\* counted as failed.
C3_Witness ==
    /\ LOAD_GOOGLE_AI_MODE
    /\ \E k \in Tasks : serp_response[k].tag = "None" /\ pc[k] = "failed"
    /\ stats.failed = 1

\* The log of orchestrator k is that of its primary fetch, which has returned.
PrimaryLogKept(k) ==
    /\ fetch_log[k].endpoint = "organic"
    /\ fetch_log[k].tries > 0
    /\ pc[k] \notin {"primary_request", "primary_backoff"}

\* RETRY_DELAY_BASE * 2^0, ..., RETRY_DELAY_BASE * 2^(n-1)
ExpectedWaits(n) == [i \in 1..n |-> RETRY_DELAY_BASE * 2^(i - 1)]

\* C4: a primary fetch whose attempts 1..k got 429 and whose attempt k+1 got
\* 200 with a JSON body, k < MAX_RETRIES, returned that body, and slept
\* exactly RETRY_DELAY_BASE * 2^0, ..., RETRY_DELAY_BASE * 2^(k-1): one wait
\* after each 429, none after the 200.
C4_BackoffSequence ==
    \A k \in Tasks :
      (/\ PrimaryLogKept(k)
       /\ fetch_log[k].last = "ok"
       /\ fetch_log[k].seen \in {"none", "rate_limited"}) =>
        /\ serp_response[k].tag = "data"
        /\ fetch_log[k].tries \in 1..MAX_RETRIES
        /\ fetch_log[k].waits = ExpectedWaits(fetch_log[k].tries - 1)

\* A primary fetch got 429 twice and 200 on its third attempt, after waits of
\* RETRY_DELAY_BASE and 2 * RETRY_DELAY_BASE.
C4_Witness ==
    \E k \in Tasks :
      /\ PrimaryLogKept(k)
      /\ fetch_log[k].last = "ok"
      /\ fetch_log[k].seen = "rate_limited"
      /\ fetch_log[k].tries = MAX_RETRIES
      /\ fetch_log[k].waits = <<RETRY_DELAY_BASE, 2 * RETRY_DELAY_BASE>>
      /\ serp_response[k].tag = "data"

\* C5: a keyword whose AI-mode fetch returned Failure (so AI-mode is enabled
\* and its primary fetch succeeded) is counted in completed and not in failed,
\* and returns exactly the AI-overview and organic rows of its primary
\* response, with no AI-mode row.
C5_AiModeFailureIsolated ==
    /\ StatsAreCounted
    /\ \A k \in Tasks :
         ai_mode_response[k].tag = "None" =>
           /\ LOAD_GOOGLE_AI_MODE
           /\ ResponseTruthy(serp_response[k])
           /\ pc[k] = "done"
           /\ counted[k].failed = 0
           /\ counted[k].completed = 1
           /\ counted[k].ai_mode_rows = 0
           /\ rows[k] = _extract_ai_overview_rows(serp_response[k].data, keywords[k])
                          \o _extract_organic_rows(serp_response[k].data, keywords[k])
           /\ RowsOfType(rows[k], "ai_mode") = <<>>

\* A keyword with two AI-overview rows and one organic row completed although
\* its AI-mode fetch failed.
C5_Witness ==
    \E k \in Tasks :
      /\ ai_mode_response[k].tag = "None"
      /\ pc[k] = "done"
      /\ Len(RowsOfType(rows[k], "ai_overview")) = 2
      /\ Len(RowsOfType(rows[k], "organic")) = 1
      /\ stats.failed = 0

AiModeStates == {"ai_mode_pending", "ai_mode_request", "ai_mode_backoff"}

\* C6: with LOAD_GOOGLE_AI_MODE false no orchestrator posts to the AI-mode
\* endpoint or enters fetch_ai_mode_data, whatever its primary fetch returned.
C6_NoAiModeWhenDisabled ==
    ~LOAD_GOOGLE_AI_MODE =>
      \A k \in Tasks :
        /\ "ai_mode" \notin posted[k]
        /\ pc[k] \notin AiModeStates
        /\ ai_mode_response[k] = Unset
        /\ counted[k].ai_mode_rows = 0

\* AI-mode is disabled and the batch is done, one keyword's primary fetch
\* having succeeded and the other's having failed.
C6_Witness ==
    /\ ~LOAD_GOOGLE_AI_MODE
    /\ batch = "done"
    /\ \E k, j \in Tasks : pc[k] = "done" /\ rows[k] # <<>> /\ pc[j] = "failed"

RowCounters == {"ai_overview_rows", "organic_rows", "ai_mode_rows"}

\* C7: no keyword has both incremented failed and contributed rows, a row
\* counter or a completed increment: it is on the failure path (failed only)
\* or on the success path (no failed increment).
C7_SuccessOrFailure ==
    /\ StatsAreCounted
    /\ \A k \in Tasks :
         /\ counted[k].failed > 0 =>
              /\ rows[k] = <<>>
              /\ \A c \in RowCounters : counted[k][c] = 0
              /\ counted[k].completed = 0
         /\ (rows[k] # <<>> \/ \E c \in RowCounters : counted[k][c] > 0) =>
              /\ counted[k].failed = 0
              /\ pc[k] # "failed"
              /\ counted[k].ai_overview_rows = Len(RowsOfType(rows[k], "ai_overview"))
              /\ counted[k].organic_rows = Len(RowsOfType(rows[k], "organic"))
              /\ counted[k].ai_mode_rows = Len(RowsOfType(rows[k], "ai_mode"))

\* One keyword is on the failure path (a 200 response with an empty object
\* as body) and another on the success path with rows of all three kinds.
C7_Witness ==
    \E k, j \in Tasks :
      /\ pc[k] = "failed" /\ serp_response[k].tag = "data" /\ counted[k].failed = 1
      /\ pc[j] = "done" /\ \A c \in RowCounters : counted[j][c] > 0

\* C8: every keyword adds 1 to exactly one of completed and failed, once,
\* when its orchestrator returns; completed + failed <= total throughout, and
\* completed + failed = total = the number of keywords when the batch returns.
C8_CompletedPlusFailed ==
    /\ stats.completed = Counted("completed")
    /\ stats.failed = Counted("failed")
    /\ stats.total = Len(keywords)
    /\ stats.completed + stats.failed <= stats.total
    /\ \A k \in Tasks :
         /\ counted[k].completed \in {0, 1}
         /\ counted[k].failed \in {0, 1}
         /\ counted[k].completed + counted[k].failed =
              (IF pc[k] \in {"done", "failed"} THEN 1 ELSE 0)
         /\ pc[k] = "done" => counted[k].completed = 1
         /\ pc[k] = "failed" => counted[k].failed = 1
    /\ batch = "done" => stats.completed + stats.failed = stats.total

\* With AI-mode enabled the batch returned with one keyword completed and
\* one failed.
C8_Witness ==
    /\ LOAD_GOOGLE_AI_MODE
    /\ batch = "done"
    /\ stats.completed = 1
    /\ stats.failed = 1
    /\ stats.total = 2

\* The batch over [a, b] has returned and both primary fetches succeeded with
\* one organic item each.
BothOrganic ==
    /\ keywords = <<"a", "b">>
    /\ batch = "done"
    /\ \A k \in Tasks : serp_response[k] = ReturnedData(DocOrganic(keywords[k]))

\* C9 as stated: for [a, b] with one organic item each, the output is exactly
\* 2 rows, both organic, with completed = 2 and failed = 0.
C9_Original ==
    BothOrganic =>
      /\ Len(all_rows) = 2
      /\ \A i \in 1..Len(all_rows) : all_rows[i].result_type = "organic"
      /\ stats.completed = 2
      /\ stats.failed = 0

\* C9, amended: for [a, b] with one organic item each, under every
\* interleaving the output holds exactly 2 organic rows (one per keyword) and
\* no AI-overview row, with completed = 2 and failed = 0; every other row is
\* an AI-mode row, and there is none when AI-mode is disabled or no AI-mode
\* fetch returned rows.
C9_TwoOrganicRows ==
    BothOrganic =>
      /\ Len(RowsOfType(all_rows, "organic")) = 2
      /\ \A k \in Tasks :
           Len(SelectSeq(all_rows, LAMBDA r : r.result_type = "organic"
                                              /\ r.keyword = keywords[k])) = 1
      /\ \A i \in 1..Len(all_rows) : all_rows[i].result_type \in {"organic", "ai_mode"}
      /\ Len(all_rows) = 2 + stats.ai_mode_rows
      /\ (~LOAD_GOOGLE_AI_MODE \/ \A k \in Tasks : ~ResponseTruthy(ai_mode_response[k])) =>
           Len(all_rows) = 2
      /\ stats.organic_rows = 2
      /\ stats.ai_overview_rows = 0
      /\ stats.completed = 2
      /\ stats.failed = 0

\* Both keywords succeeded with one organic item, b finishing before a, and
\* the output is b's organic row followed by a's.
C9_Witness ==
    /\ BothOrganic
    /\ finished = <<2, 1>>
    /\ Len(all_rows) = 2
    /\ all_rows[1].keyword = "b"
    /\ all_rows[2].keyword = "a"

\* C10: for [a, b] where a's primary fetch returned Failure and b's succeeded,
\* the output is exactly b's rows (a contributed none), with completed = 1 and
\* failed = 1, in whichever order the two finished.
C10_OnlySurvivorRows ==
    (/\ keywords = <<"a", "b">>
     /\ batch = "done"
     /\ serp_response[1].tag = "None"
     /\ ResponseTruthy(serp_response[2])) =>
      /\ rows[1] = <<>>
      /\ all_rows = rows[2]
      /\ \A i \in 1..Len(all_rows) : all_rows[i].keyword = "b"
      /\ Len(RowsOfType(all_rows, "organic")) = 1
      /\ stats.completed = 1
      /\ stats.failed = 1

\* a failed and finished first, b succeeded after it, and the output holds
\* b's rows.
C10_Witness ==
    /\ keywords = <<"a", "b">>
    /\ batch = "done"
    /\ finished = <<1, 2>>
    /\ serp_response[1].tag = "None"
    /\ ResponseTruthy(serp_response[2])
    /\ all_rows # <<>>
    /\ stats.completed = 1
    /\ stats.failed = 1

\* The fetch whose log orchestrator k holds has returned to its caller.
LogReturned(k) ==
    \/ fetch_log[k].endpoint = "organic" /\ serp_response[k] # Unset
    \/ fetch_log[k].endpoint = "ai_mode" /\ ai_mode_response[k] # Unset

\* What that fetch returned.
LogResult(k) ==
    IF fetch_log[k].endpoint = "organic" THEN serp_response[k] ELSE ai_mode_response[k]

\* C11 as stated: a fetch whose latest attempt received a status other than
\* 200 and 429 has returned Failure at once: it holds no permit, made no
\* further attempt, and slept no backoff wait after that attempt.
C11_OtherStatusEndsFetch ==
    \A k \in Tasks :
      fetch_log[k].last \in {"http_error", "body_lost"} =>
        /\ ~Holding(k)
        /\ LogReturned(k)
        /\ LogResult(k) = ReturnedNone
        /\ Len(fetch_log[k].waits) = fetch_log[k].tries - 1

\* The first attempt of a fetch received a status other than 200 and 429,
\* reading its body failed, and the fetch slept RETRY_DELAY_BASE and posted a
\* second attempt.
C11_Witness ==
    \E k \in Tasks :
      /\ fetch_log[k].seen = "body_lost"
      /\ fetch_log[k].tries = 2
      /\ fetch_log[k].waits = <<RETRY_DELAY_BASE>>
      /\ pc[k] = "primary_request"

\* The outcomes after which the loop goes on to a further attempt.
Retriable == Caught \cup {"rate_limited"}

\* C12: whatever the outcomes of its attempts (429, timeout and transport
\* errors in any mix), a fetch, primary or AI-mode, posts at most MAX_RETRIES
\* requests, its loop variable staying below MAX_RETRIES; and a fetch that has
\* returned after MAX_RETRIES attempts of which the last failed by a
\* retriable outcome returned Failure.
C12_AttemptsBounded ==
    \A k \in Tasks :
      /\ attempt[k] \in 0..(MAX_RETRIES - 1)
      /\ fetch_log[k].tries \in 0..MAX_RETRIES
      /\ Holding(k) => fetch_log[k].tries = attempt[k] + 1
      /\ (/\ LogReturned(k)
          /\ fetch_log[k].tries = MAX_RETRIES
          /\ fetch_log[k].last \in Retriable) =>
           LogResult(k) = ReturnedNone

\* An AI-mode fetch returned Failure after MAX_RETRIES attempts that failed
\* in different ways, the last of them by timeout.
C12_Witness ==
    \E k \in Tasks :
      /\ fetch_log[k].endpoint = "ai_mode"
      /\ LogReturned(k)
      /\ fetch_log[k].tries = MAX_RETRIES
      /\ fetch_log[k].seen = "mixed"
      /\ fetch_log[k].last = "timeout"
      /\ ai_mode_response[k] = ReturnedNone

\* C13: a fetch takes its permit once, before its first attempt, holds it
\* through every attempt and every backoff wait, and gives it back once, when
\* it returns (or is left by an exception): a fetch that waits for a permit
\* has not begun, so no fetch queues for a permit between two attempts.
C13_PermitHeldThroughout ==
    /\ semaphore + InFlight = MAX_CONCURRENT_REQUESTS
    /\ \A k \in Tasks :
         /\ Holding(k) =>
              /\ fetch_log[k].acquired = 1
              /\ fetch_log[k].released = 0
              /\ pc[k] \in {RequestState(fetch_log[k].endpoint),
                            BackoffState(fetch_log[k].endpoint)}
         /\ ~Holding(k) =>
              /\ fetch_log[k].acquired \in {0, 1}
              /\ fetch_log[k].released = fetch_log[k].acquired
         /\ pc[k] = "primary_pending" => fetch_log[k] = EmptyLog
         /\ pc[k] = "ai_mode_pending" =>
              fetch_log[k].endpoint = "organic" /\ LogReturned(k)

\* A fetch has returned after three attempts and two backoff waits, having
\* taken one permit and given one back, while the other keyword waited for
\* the only permit all along.
C13_Witness ==
    /\ MAX_CONCURRENT_REQUESTS = 1
    /\ \E k, j \in Tasks :
         /\ LogReturned(k)
         /\ fetch_log[k].tries = MAX_RETRIES
         /\ Len(fetch_log[k].waits) = MAX_RETRIES - 1
         /\ fetch_log[k].acquired = 1
         /\ fetch_log[k].released = 1
         /\ pc[j] = "primary_pending"

\* C14 as stated: a keyword whose primary fetch received 200 and returned the
\* parsed body, whatever the body, is on the success path: it is not counted
\* in failed, and is counted in completed once its orchestrator has returned.
C14_Status200Completes ==
    \A k \in Tasks :
      serp_response[k].tag = "data" =>
        /\ pc[k] # "failed"
        /\ counted[k].failed = 0
        /\ pc[k] = "done" => counted[k].completed = 1

\* The primary fetch of a keyword received 200 with the JSON body {} and
\* returned it, its permit given back, and the keyword was counted in failed.
C14_Witness ==
    \E k \in Tasks :
      /\ serp_response[k] = ReturnedData(DocEmpty)
      /\ ~Holding(k)
      /\ pc[k] = "failed"
      /\ counted[k] = [NothingCounted EXCEPT !.failed = 1]
      /\ stats.completed = 0

\* The primary fetch of k returned Failure after MAX_RETRIES attempts that
\* all failed with an outcome in kinds.
ExhaustedBy(k, kinds) ==
    /\ fetch_log[k].endpoint = "organic"
    /\ serp_response[k] = ReturnedNone
    /\ fetch_log[k].tries = MAX_RETRIES
    /\ fetch_log[k].seen \in kinds

\* C15 as stated: a fetch whose MAX_RETRIES attempts all failed by timeout or
\* transport error made the same number of attempts and slept the same
\* sequence of backoff waits before it returned Failure as a fetch whose
\* MAX_RETRIES attempts all got 429.
C15_SamePolicyAs429 ==
    \A k, j \in Tasks :
      (ExhaustedBy(k, {"rate_limited"}) /\ ExhaustedBy(j, {"timeout", "client_error"})) =>
        /\ fetch_log[j].tries = fetch_log[k].tries
        /\ fetch_log[j].waits = fetch_log[k].waits

\* Keyword 1 was exhausted by 429 after waits of 1, 2 and 4 times
\* RETRY_DELAY_BASE; keyword 2 was exhausted by timeouts after waits of 1 and
\* 2 times RETRY_DELAY_BASE only.
C15_Witness ==
    /\ Len(keywords) = 2
    /\ ExhaustedBy(1, {"rate_limited"})
    /\ fetch_log[1].waits = ExpectedWaits(MAX_RETRIES)
    /\ ExhaustedBy(2, {"timeout"})
    /\ fetch_log[2].waits = ExpectedWaits(MAX_RETRIES - 1)

\* C16 as stated: a fetch that returned Failure printed an error line to
\* sys.stderr before it returned.
C16_FailureIsReported ==
    \A k \in Tasks :
      (LogReturned(k) /\ LogResult(k) = ReturnedNone) => fetch_log[k].errors # <<>>

\* A primary fetch got 429 on each of its MAX_RETRIES attempts and returned
\* Failure, the keyword counted in failed, with nothing printed to sys.stderr.
C16_Witness ==
    \E k \in Tasks :
      /\ ExhaustedBy(k, {"rate_limited"})
      /\ pc[k] = "failed"
      /\ fetch_log[k].errors = <<>>

\* C17 as stated: only an interrupt ends the batch early: no task ends with
\* an error of its keyword's processing, and no such error leaves
\* process_keywords_async.
C17_OnlyInterruptAborts ==
    /\ batch # "raised"
    /\ \A k \in Tasks : exception[k] \notin {"ValueError", "TimeoutError", "ClientError"}

\* Keyword b completed and its rows were collected; then the 200 response of
\* keyword a had a body that response.json() could not decode, the error left
\* process_keywords_async, and the batch ended without an interrupt, the
\* collected rows lost with it.
C17_Witness ==
    /\ batch = "raised"
    /\ pc[1] = "raised" /\ exception[1] = "ValueError"
    /\ pc[2] = "done"
    /\ collected = 1
    /\ all_rows # <<>>

\* C18: the session is open exactly while the batch runs: once
\* process_keywords_async has been left, by its return (however many keywords
\* failed), by an exception or by an interrupt, the session is closed.
C18_SessionClosedOnExit ==
    /\ batch \in {"running", "done", "raised", "interrupted"}
    /\ session_open <=> batch = "running"

\* The batch was interrupted after one keyword had failed and while a request
\* of the other was in flight, and the session is closed.
C18_Witness ==
    /\ batch = "interrupted"
    /\ ~session_open
    /\ stats.failed = 1
    /\ \E k \in Tasks : pc[k] \in {"primary_request", "ai_mode_request"}

RequestStates == {"primary_request", "ai_mode_request"}

\* Orchestrator k posts a request in this step: a first attempt or a retry.
Posts(k) ==
    /\ pc'[k] \in RequestStates
    /\ pc[k] # pc'[k] \/ attempt'[k] # attempt[k]

TypeRank(t) ==
    CASE t = "ai_overview" -> 1
      [] t = "organic" -> 2
      [] t = "ai_mode" -> 3

\* keyword and kind of each row
Labels(rs) == [i \in 1..Len(rs) |-> <<rs[i].keyword, rs[i].result_type>>]

\* The rows of the orchestrators collected so far, in the order they finished.
InFinishOrder == ConcatAll([i \in 1..collected |-> rows[finished[i]]])

\* C20: the result is the concatenation of the row sequences of the collected
\* keywords in the order their orchestrators finished, so each keyword's rows
\* are one block and the block of a keyword that finished earlier comes
\* first; and within a block the AI-overview rows come first, then the
\* organic rows, then the AI-mode rows.
C20_CompletionOrder ==
    /\ collected <= Len(finished)
    /\ Labels(all_rows) = Labels(InFinishOrder)
    /\ all_rows = InFinishOrder
    /\ \A k \in Tasks :
         \A i, j \in 1..Len(rows[k]) :
           i < j => TypeRank(rows[k][i].result_type) <= TypeRank(rows[k][j].result_type)

\* Keyword b finished before keyword a, each with rows of all three kinds,
\* and the result is b's block followed by a's.
C20_Witness ==
    /\ batch = "done"
    /\ keywords = <<"a", "b">>
    /\ finished = <<2, 1>>
    /\ \A k \in Tasks : \A c \in RowCounters : counted[k][c] > 0
    /\ Len(all_rows) = Len(rows[1]) + Len(rows[2])
    /\ \A i \in 1..Len(all_rows) :
         all_rows[i].keyword = (IF i <= Len(rows[2]) THEN "b" ELSE "a")

(***************************************************************************)
(* The per-keyword orchestrator.                                           *)
(***************************************************************************)
\* The rows keyword k has added to the row counters of stats.
RowsCounted(k) ==
    counted[k].ai_overview_rows + counted[k].organic_rows + counted[k].ai_mode_rows

\* C26: an orchestrator changes the counters of stats in one suspension-free
\* step: the first change it makes is its only one, and in no state has a
\* keyword added to the row counters while it is counted neither in completed
\* nor in failed.
C26_StatsMutatedOnce ==
    [][\A k \in Tasks :
          /\ counted'[k] # counted[k] => counted[k] = NothingCounted
          /\ RowsCounted(k) > 0 => counted[k].completed + counted[k].failed > 0]_vars

\* The AI-mode request of a keyword is in flight: its organic row is in
\* stats.organic_rows and the keyword is in neither completed nor failed,
\* while progress is reported for another keyword.
C26_Witness ==
    \E k \in Tasks :
        /\ pc[k] = "ai_mode_request"
        /\ counted[k].organic_rows = 1
        /\ counted[k].completed = 0
        /\ counted[k].failed = 0
        /\ stats.organic_rows >= 1
        /\ stats.completed + stats.failed = 1
        /\ collected = 1

PrimaryStates == {"primary_pending", "primary_request", "primary_backoff"}

\* C27: a keyword starts in primary-pending (the primary fetch); from there it
\* goes to failed, or its primary fetch succeeds and it goes on to the AI-mode
\* fetch and then to done (straight to done when AI-mode is disabled).  The
\* AI-mode fetch is entered only from the primary fetch and only with a
\* primary response; failed and done are never left; no keyword counts in both
\* failed and completed; the primary fetch is never entered again.
C27_KeywordStateMachine ==
    [][\A k \in Tasks :
          /\ pc'[k] \in AiModeStates =>
                /\ pc[k] \in PrimaryStates \cup AiModeStates
                /\ ResponseTruthy(serp_response'[k])
          /\ "ai_mode" \in posted'[k] => ResponseTruthy(serp_response'[k])
          /\ pc[k] \in {"failed", "done"} => pc'[k] = pc[k]
          /\ pc'[k] = "failed" => pc[k] \in PrimaryStates \cup {"failed"}
          /\ pc'[k] = "done" =>
                \/ pc[k] \in AiModeStates \cup {"done"}
                \/ pc[k] \in PrimaryStates /\ ~LOAD_GOOGLE_AI_MODE
          /\ pc[k] \notin PrimaryStates => pc'[k] \notin PrimaryStates
          /\ ~(counted'[k].failed > 0 /\ counted'[k].completed > 0)]_vars

\* Of two keywords one has failed at its primary fetch and the other is done
\* after an AI-mode fetch that followed its successful primary fetch.
C27_Witness ==
    \E j, k \in Tasks :
        /\ pc[j] = "failed"
        /\ ~ResponseTruthy(serp_response[j])
        /\ posted[j] = {"organic"}
        /\ pc[k] = "done"
        /\ ResponseTruthy(serp_response[k])
        /\ posted[k] = {"organic", "ai_mode"}
        /\ counted[k].completed = 1
        /\ counted[k].failed = 0

(***************************************************************************)
(* The result sink and main().                                             *)
(***************************************************************************)
\* C21: the two output files are written atomically: an output file that
\* exists holds every row, and neither file exists without the other, also
\* when a write fails part-way.
C21_WrittenAtomically ==
    /\ csv_file.exists => Len(csv_file.records) = Len(all_rows)
    /\ json_file.exists => Len(json_file.rows) = Len(all_rows)
    /\ csv_file.exists <=> json_file.exists

\* A write of the CSV file failed part-way: the run has ended with some of
\* the rows in the CSV file and no JSON file.
C21_Witness ==
    /\ exit_code.run_google_serp = 1
    /\ csv_file.exists
    /\ csv_file.closed
    /\ 0 < Len(csv_file.records)
    /\ Len(csv_file.records) < Len(all_rows)
    /\ ~json_file.exists

\* The CSV writer has returned.
CsvWritten == main_pc \in {"json_open", "json", "written", "returned"}

\* C22: the CSV file starts with the header UNIFIED_FIELDNAMES and holds one
\* record per row, in the order of the rows; a record has exactly the columns
\* of the header, "" in a column its row lacks or holds None in, and the row's
\* value in every other column; once the writer has returned there are as
\* many records as rows.
C22_CsvRecords ==
    csv_file.exists =>
        /\ csv_file.header = UNIFIED_FIELDNAMES
        /\ Len(csv_file.records) <= Len(all_rows)
        /\ CsvWritten => Len(csv_file.records) = Len(all_rows)
        /\ \A i \in 1..Len(csv_file.records) :
              LET row == all_rows[i]
                  record == csv_file.records[i]
              IN  /\ DOMAIN record = Columns
                  /\ \A k \in Columns :
                        /\ k \notin DOMAIN row => record[k] = ""
                        /\ HoldsNumber(row, k) => record[k] = Str(row[k])
                        /\ (k \in DOMAIN row /\ ~HoldsNumber(row, k)) =>
                               record[k] = IF row[k] = NoneVal THEN "" ELSE row[k]

\* A run has ended with exit code 0 and a CSV file of several records, one of
\* them of an organic row without a page (None) and without AI-mode columns,
\* another of an AI-mode summary row with its citation count.
C22_Witness ==
    /\ exit_code.run_google_serp = 0
    /\ csv_file.closed
    /\ Len(csv_file.records) = Len(all_rows)
    /\ \E i, j \in 1..Len(all_rows) :
          /\ i < j
          /\ all_rows[i].result_type = "organic"
          /\ all_rows[i].page = NoneVal
          /\ csv_file.records[i].page = ""
          /\ csv_file.records[i].ai_mode_summary = ""
          /\ csv_file.records[i].domain = "example.com"
          /\ HoldsNumber(all_rows[j], "ai_mode_citations_count")
          /\ csv_file.records[j].ai_mode_citations_count = "2"

\* C24: the timestamp in the names of the two output files is one and the
\* same, and it is taken at batch start: when it is taken no fetch of the
\* batch has been issued.
C24_TimestampAtBatchStart ==
    [][/\ ts' # ts => \A k \in Tasks : posted[k] = {}
       /\ (csv_file'.exists /\ json_file'.exists) => csv_file'.name = json_file'.name]_vars

\* Both files exist under the same timestamp, which is later than the time
\* the batch started at.
C24_Witness ==
    /\ csv_file.exists
    /\ json_file.exists
    /\ csv_file.name = json_file.name
    /\ csv_file.name = ts
    /\ ts > start_time
    /\ \E k \in Tasks : posted[k] # {}

\* The texts either program prints about the keyword input.
KeywordErrors == {"Keywords file not found", "No keywords found"}

Printed(texts) == \E i \in 1..Len(console) : console[i].text \in texts

\* C25: when the keywords file is missing or has no non-blank line, the
\* program the user started (the scraper, or manage.py run with its
\* requirements met) ends with exit code 1 and has reported the error, no
\* fetch is issued and no output file is created.
C25_NoKeywordsExitOne ==
    (_load_keywords(keywords_file) = <<>> /\ ~Printed({"Missing requirements"})) =>
        /\ exit_code[entry] \in {Running, 1}
        /\ exit_code[entry] = 1 => Printed(KeywordErrors)
        /\ batch = "not_started"
        /\ \A k \in Tasks : posted[k] = {}
        /\ ~csv_file.exists
        /\ ~json_file.exists

\* manage.py run has ended with exit code 0 although the scraper it started
\* found no keyword in the file and ended with exit code 1.
C25_Witness ==
    /\ entry = "manage"
    /\ keywords_file.exists
    /\ _load_keywords(keywords_file) = <<>>
    /\ exit_code.run_google_serp = 1
    /\ exit_code.manage = 0
    /\ Printed({"No keywords found"})
    /\ batch = "not_started"
    /\ ~csv_file.exists
    /\ ~json_file.exists

(***************************************************************************)
(* The extraction functions.                                               *)
(***************************************************************************)
\* The calls made so far of one extraction function.
CallsOf(function) == {i \in 1..Len(returned) : returned[i].function = function}

\* C23: every key of every row an extraction function returns is a column of
\* UNIFIED_FIELDNAMES.
C23_SchemaCoversRows ==
    /\ \A c \in 1..Len(returned) : \A i \in 1..Len(returned[c].rows) :
          DOMAIN returned[c].rows[i] \subseteq Columns
    /\ \A i \in 1..Len(all_rows) : DOMAIN all_rows[i] \subseteq Columns

\* _extract_ai_mode_rows returned a summary row and reference rows, and
\* _extract_organic_rows returned a row, for one document.
C23_Witness ==
    /\ \E c \in CallsOf("_extract_ai_mode_rows") :
          /\ Len(returned[c].rows) = 3
          /\ "ai_mode_primary_url" \in DOMAIN returned[c].rows[1]
          /\ "references_markdown" \in DOMAIN returned[c].rows[2]
    /\ \E c \in CallsOf("_extract_organic_rows") :
          /\ Len(returned[c].rows) = 1
          /\ "website_name" \in DOMAIN returned[c].rows[1]

Elements(d, k) == IF k \in DOMAIN d /\ d[k] # NoneList THEN d[k] ELSE <<>>

\* The items of all results of all tasks of a document, in order.
AllItems(doc) ==
    LET tasks == Elements(doc, "tasks")
        ItemsOfTask(task) ==
            LET results == Elements(task, "result")
            IN  ConcatAll([r \in 1..Len(results) |-> Elements(results[r], "items")])
    IN  ConcatAll([t \in 1..Len(tasks) |-> ItemsOfTask(tasks[t])])

ItemsOfType(doc, type) ==
    {i \in 1..Len(AllItems(doc)) :
        "type" \in DOMAIN AllItems(doc)[i] /\ AllItems(doc)[i].type = type}

References(x) == Len(Elements(x, "references"))

\* The references of an AI-overview item, of its sub-items and of their
\* components.
ReferencesUnder(item) ==
    LET subs == Elements(item, "items")
        UnderSub(sub) ==
            LET comps == Elements(sub, "components")
            IN  References(sub)
                + SumOver(Len(comps), [c \in 1..Len(comps) |-> References(comps[c])])
    IN  References(item) + SumOver(Len(subs), [s \in 1..Len(subs) |-> UnderSub(subs[s])])

OverviewReferences(doc) ==
    LET items == AllItems(doc)
    IN  SumOver(Len(items),
                [i \in 1..Len(items) |->
                    IF i \in ItemsOfType(doc, "ai_overview")
                    THEN ReferencesUnder(items[i]) ELSE 0])

\* One organic item and one AI-overview item with two references.
ExampleDocument == Document({"sub_items"}, {})

\* C29: _extract_organic_rows returns one row per item of type organic, and
\* _extract_ai_overview_rows one row per reference of the items of type
\* ai_overview, of their sub-items and of the components of these; for one
\* organic item and one AI-overview item with two references that is 1 row
\* and 2 rows.
C29_RowsPerItemAndReference ==
    \A c \in 1..Len(returned) :
        LET call == returned[c] IN
        /\ call.function = "_extract_organic_rows" =>
              /\ Len(call.rows) = Cardinality(ItemsOfType(call.given, "organic"))
              /\ \A i \in 1..Len(call.rows) : call.rows[i].result_type = "organic"
              /\ call.given = ExampleDocument => Len(call.rows) = 1
        /\ call.function = "_extract_ai_overview_rows" =>
              /\ Len(call.rows) = OverviewReferences(call.given)
              /\ \A i \in 1..Len(call.rows) : call.rows[i].result_type = "ai_overview"
              /\ call.given = ExampleDocument => Len(call.rows) = 2

\* On the document with every field set, _extract_organic_rows returned its
\* one row and _extract_ai_overview_rows four rows: two for the references of
\* the item, one for its sub-item's and one for the component's.
C29_Witness ==
    /\ document = Document({}, {})
    /\ \E c \in CallsOf("_extract_organic_rows") : Len(returned[c].rows) = 1
    /\ \E c \in CallsOf("_extract_ai_overview_rows") :
          /\ Len(returned[c].rows) = 4
          /\ returned[c].rows[1].domain = "a.org"
          /\ returned[c].rows[2].domain = "b.org"
          /\ returned[c].rows[3].domain = "s.org"
          /\ returned[c].rows[4].domain = "c.org"

\* C30: whatever fields of the document are absent or null, a call of an
\* extraction function returns a sequence of rows and does not raise.
C30_NeverRaises ==
    \A c \in 1..Len(returned) :
        /\ returned[c].rows # Raised
        /\ \A i \in 1..Len(returned[c].rows) :
              "result_type" \in DOMAIN returned[c].rows[i]

\* The document holds null for data and for the references of the
\* AI-overview item: _extract_ai_overview_rows returned the two rows of the
\* sub-item and its component, _extract_ai_mode_rows a summary row that
\* counts no citation.
C30_Witness ==
    /\ document = Document({}, {"data", "references"})
    /\ document.tasks[1].data = NoneDict
    /\ document.tasks[1].result[1].items[2].references = NoneList
    /\ \E c \in CallsOf("_extract_ai_overview_rows") :
          /\ Len(returned[c].rows) = 2
          /\ returned[c].rows[1].keyword = "result keyword"
    /\ \E c \in CallsOf("_extract_ai_mode_rows") :
          /\ Len(returned[c].rows) = 1
          /\ returned[c].rows[1].ai_mode_citations_count = 0

(***************************************************************************)
(* The keyword source.                                                     *)
(***************************************************************************)
\* A line with nothing but whitespace on it.
Blank(line) == \A j \in 1..Len(line) : line[j] \in Whitespace

\* kw is the line without the whitespace before its first and after its last
\* other character.
Surrounded(kw, line) ==
    \E a, b \in 1..Len(line) :
        /\ a <= b
        /\ line[a] \notin Whitespace
        /\ line[b] \notin Whitespace
        /\ \A j \in 1..Len(line) : (j < a \/ j > b) => line[j] \in Whitespace
        /\ kw = Join(SubSeq(line, a, b))

\* The list has one keyword for each line that is not blank, in the order of
\* the lines.
InFileOrder(kws, lines) ==
    LET kept == {i \in 1..Len(lines) : ~Blank(lines[i])}
    IN  /\ Len(kws) = Cardinality(kept)
        /\ \A i \in kept :
              Surrounded(kws[Cardinality({j \in kept : j <= i})], lines[i])

LoadCalls == {c \in 1..Len(returned) : returned[c].function = "_load_keywords"}

\* C31: _load_keywords returns the lines of the keywords file in file order,
\* each without its surrounding whitespace, blank lines left out and
\* duplicates kept; no returned keyword is empty, and a missing file gives the
\* empty list.
C31_LoadKeywords ==
    \A c \in LoadCalls :
        LET file == returned[c].given
            kws == returned[c].keywords
        IN  /\ \A i \in 1..Len(kws) : kws[i] # ""
            /\ ~file.exists => kws = <<>>
            /\ file.exists => InFileOrder(kws, file.lines)

\* _load_keywords read a file of a keyword, a blank line and the same
\* keyword with whitespace around it, and returned the keyword twice; and it
\* read a file that does not exist.
C31_Witness ==
    /\ LoadCalls # {}
    /\ keywords_file = TextFile(<< <<" ", "b", "\t", "\n">>, <<" ", "\t", "\n">>, <<"b">> >>)
    /\ returned[1].keywords = <<"b", "b">>


(***************************************************************************)
(* The batch as a whole.                                                   *)
(***************************************************************************)
\* The counter of stats for each result_type.
CounterOf == [ai_overview |-> "ai_overview_rows", organic |-> "organic_rows",
              ai_mode |-> "ai_mode_rows"]

\* C32: no counter update of a concurrent orchestrator is lost: when
\* process_keywords_async has returned normally each row counter equals the
\* number of rows of its result_type in the returned result, and in every
\* state before that each counter is at least the number of rows of its type
\* already appended to all_rows.
C32_CountersMatchRows ==
    \A t \in DOMAIN CounterOf :
        /\ stats[CounterOf[t]] >= Len(RowsOfType(all_rows, t))
        /\ batch = "done" => stats[CounterOf[t]] = Len(RowsOfType(all_rows, t))

\* Both orchestrators added to the row counters, the second keyword finished
\* before the first, and the batch returned rows of all three types.
C32_Witness ==
    /\ batch = "done"
    /\ Len(keywords) = 2
    /\ \A k \in Tasks : counted[k].organic_rows > 0 /\ counted[k].ai_mode_rows > 0
    /\ stats.ai_overview_rows > 0
    /\ finished = <<2, 1>>


\* The fetches whose log shows a permit taken and not given back.
PermitsOut == Cardinality({k \in Tasks : fetch_log[k].acquired > fetch_log[k].released})

\* C33: the AI-mode fetch is issued apart from the primary fetch: when the
\* orchestrator waits for the AI-mode fetch's permit, the primary fetch has
\* given its permit back and nothing of the AI-mode fetch has been posted, so
\* the permit is in the pool for whichever pending fetch takes it next.
C33_AiModeQueuesForPermit ==
    /\ \A k \in Tasks :
          pc[k] = "ai_mode_pending" =>
              /\ fetch_log[k].endpoint = "organic"
              /\ fetch_log[k].acquired = 1
              /\ fetch_log[k].released = 1
              /\ "ai_mode" \notin posted[k]
    /\ semaphore = MAX_CONCURRENT_REQUESTS - PermitsOut

\* With one permit, the AI-mode fetch of the first keyword waits while the
\* primary fetch of the second keyword, admitted after the first keyword's
\* primary fetch gave the permit back, holds it.
C33_Witness ==
    /\ MAX_CONCURRENT_REQUESTS = 1
    /\ Len(keywords) = 2
    /\ pc[1] = "ai_mode_pending"
    /\ pc[2] = "primary_request"
    /\ fetch_log[1].released = 1
    /\ fetch_log[2].acquired = 1
    /\ semaphore = 0


(***************************************************************************)
(* The rows of an AI Mode response.                                        *)
(***************************************************************************)
\* The text of a field, "" when the field is absent, null or empty.
Text(d, k) == IF k \in DOMAIN d /\ d[k] # NoneVal THEN d[k] ELSE ""

\* The summary row of an AI Mode item: its markdown, the number of its
\* references and the domain and URL of the first of them.
IsSummaryOf(row, item) ==
    LET references == Elements(item, "references") IN
    /\ row.result_type = "ai_mode"
    /\ "references_url" \notin DOMAIN row
    /\ row.ai_mode_summary = Text(item, "markdown")
    /\ row.ai_mode_citations_count = Len(references)
    /\ row.ai_mode_primary_domain =
          (IF references = <<>> THEN "" ELSE Text(references[1], "domain"))
    /\ row.ai_mode_primary_url =
          (IF references = <<>> THEN "" ELSE Text(references[1], "url"))

\* The row of one reference of an AI Mode item.
IsReferenceOf(row, ref, item) ==
    /\ row.result_type = "ai_mode"
    /\ "references_url" \in DOMAIN row
    /\ row.references_url = Get(ref, "url")
    /\ row.domain = Get(ref, "domain")
    /\ row.references_markdown = Text(item, "markdown")
    /\ row.ai_mode_summary = ""
    /\ row.ai_mode_primary_url = ""

\* The rows of the first n items of a document: for each item of type
\* ai_overview one and one more for each of its references.
AiModeRowsBefore(doc, n) ==
    SumOver(n, [j \in 1..Len(AllItems(doc)) |->
                   IF j \in ItemsOfType(doc, "ai_overview")
                   THEN 1 + References(AllItems(doc)[j]) ELSE 0])

\* C34: _extract_ai_mode_rows returns one row per AI Mode response, that is
\* as many rows as the document has items of type ai_overview, each the
\* summary row of its item (its markdown, its citation count and the domain
\* and URL of its first reference).
C34_OneRowPerResponse ==
    \A c \in CallsOf("_extract_ai_mode_rows") :
        LET call == returned[c]
            items == AllItems(call.given)
            ai == ItemsOfType(call.given, "ai_overview")
        IN  /\ Len(call.rows) = Cardinality(ai)
            /\ \A i \in ai :
                  IsSummaryOf(call.rows[Cardinality({j \in ai : j <= i})], items[i])

\* What the function returns: for every item of type ai_overview and in the
\* order of the items, the summary row of the item followed by one row for
\* each reference of the item; the number of rows is the number of these
\* items plus the number of their references.
SummaryAndReferenceRows ==
    \A c \in CallsOf("_extract_ai_mode_rows") :
        LET call == returned[c]
            items == AllItems(call.given)
            ai == ItemsOfType(call.given, "ai_overview")
        IN  /\ Len(call.rows) = AiModeRowsBefore(call.given, Len(items))
            /\ \A i \in ai :
                  LET first == AiModeRowsBefore(call.given, i - 1) + 1
                      references == Elements(items[i], "references")
                  IN  /\ IsSummaryOf(call.rows[first], items[i])
                      /\ \A r \in 1..Len(references) :
                            IsReferenceOf(call.rows[first + r], references[r], items[i])

\* _extract_ai_mode_rows was called on the document with every field set:
\* one item of type ai_overview with two references gave a summary row that
\* counts two citations and a row for each of the two.
C34_Witness ==
    /\ document = Document({}, {})
    /\ \E c \in CallsOf("_extract_ai_mode_rows") :
          /\ Len(returned[c].rows) = 3
          /\ "references_url" \notin DOMAIN returned[c].rows[1]
          /\ returned[c].rows[1].ai_mode_citations_count = 2
          /\ returned[c].rows[1].ai_mode_primary_domain = "a.org"
          /\ returned[c].rows[3].references_url = "https://b.org"


(***************************************************************************)
(* The output files and the end of the batch.                              *)
(***************************************************************************)
\* main() is past asyncio.run, at or after _create_output_paths.
Writing == main_pc \in {"csv_open", "csv", "json_open", "json", "written"}

\* C35: the output files are written only after process_keywords_async has
\* returned normally, in a state where completed + failed = total; a run that
\* an interrupt aborted writes neither the CSV nor the JSON file, whatever
\* rows its keywords had returned.
C35_FilesOnlyAfterNormalReturn ==
    /\ (Writing \/ csv_file.exists \/ json_file.exists \/ ts # NoTime) =>
          /\ batch = "done"
          /\ stats.completed + stats.failed = stats.total
          /\ \A k \in Tasks : pc[k] \in {"done", "failed"}
    /\ batch = "interrupted" =>
          /\ ~csv_file.exists
          /\ ~json_file.exists
          /\ ~Writing

\* The keyword had completed with rows when the interrupt came: the program
\* has ended with exit code 130 and without an output file.
C35_Witness ==
    /\ batch = "interrupted"
    /\ exit_code.run_google_serp = 130
    /\ Len(keywords) = 1
    /\ pc[1] = "done"
    /\ rows[1] # <<>>
    /\ stats.completed = 1
    /\ ~csv_file.exists
    /\ ~json_file.exists


(***************************************************************************)
(* Termination.                                                            *)
(***************************************************************************)
\* A task has ended with an exception that no except clause caught.
SomeTaskRaised == \E k \in Tasks : pc[k] = "raised"

\* process_keywords_async has returned and every orchestrator is done or
\* failed.
Returned == batch = "done" /\ \A k \in Tasks : pc[k] \in {"done", "failed"}

\* C36: whatever the outcomes of the request attempts, under a fair event
\* loop the batch terminates: every orchestrator reaches failed or done and
\* process_keywords_async returns, and every fetch that waits for a permit
\* acquires one.
C36_BatchTerminates ==
    /\ <>Returned
    /\ \A k \in 1..MaxKeywords :
          /\ (k \in Tasks /\ pc[k] = "primary_pending")
                ~> (k \in Tasks /\ pc[k] = "primary_request")
          /\ (k \in Tasks /\ pc[k] = "ai_mode_pending")
                ~> (k \in Tasks /\ pc[k] = "ai_mode_request")

\* What holds instead: the batch returns, or a task has raised; and a fetch
\* that waits for a permit acquires one, or a task has raised.
TerminatesUnlessRaised ==
    /\ <>(Returned \/ SomeTaskRaised)
    /\ \A k \in 1..MaxKeywords :
          /\ (k \in Tasks /\ pc[k] = "primary_pending")
                ~> ((k \in Tasks /\ pc[k] = "primary_request") \/ SomeTaskRaised)
          /\ (k \in Tasks /\ pc[k] = "ai_mode_pending")
                ~> ((k \in Tasks /\ pc[k] = "ai_mode_request") \/ SomeTaskRaised)

\* The body of a 200 response of the first keyword was not JSON: the batch
\* was left by the ValueError and the second keyword's task, which waited
\* for a permit, was cancelled.
C36_Witness ==
    /\ batch = "raised"
    /\ Len(keywords) = 2
    /\ pc[1] = "raised"
    /\ exception[1] = "ValueError"
    /\ pc[2] = "cancelled"
    /\ "organic" \notin posted[2]
    /\ semaphore = MAX_CONCURRENT_REQUESTS


(***************************************************************************)
(* The permit pool.                                                        *)
(***************************************************************************)
\* The permits an orchestrator holds, by the log of its fetch.
PermitsOf(k) == fetch_log[k].acquired - fetch_log[k].released

\* The batch is over: process_keywords_async has returned or was left, and
\* no task is pending.
Terminal == batch # "running" /\ \A k \in Tasks : ~Unfinished(k)

\* C37: no orchestrator holds more than one permit, and none waits for a
\* permit while it holds one, so the batch cannot deadlock on the permit
\* pool: in every state that is not terminal some step is enabled, and when a
\* fetch waits and no permit is free, a fetch that holds one can take a step.
C37_NoDeadlock ==
    /\ \A k \in Tasks :
          /\ PermitsOf(k) \in {0, 1}
          /\ pc[k] \in {"primary_pending", "ai_mode_pending"} => PermitsOf(k) = 0
    /\ ~Terminal => ENABLED Next
    /\ (batch = "running" /\ semaphore = 0) =>
          \E k \in Tasks :
              /\ PermitsOf(k) = 1
              /\ ENABLED (PrimaryResponse(k) \/ PrimaryWake(k)
                            \/ AiModeResponse(k) \/ AiModeWake(k))

\* With one permit and AI-mode enabled, the first keyword waits for the
\* permit of its AI-mode fetch while the second keyword's primary fetch
\* sleeps in backoff with the permit.
C37_Witness ==
    /\ MAX_CONCURRENT_REQUESTS = 1
    /\ LOAD_GOOGLE_AI_MODE
    /\ Len(keywords) = 2
    /\ pc[1] = "ai_mode_pending"
    /\ pc[2] = "primary_backoff"
    /\ PermitsOf(1) = 0
    /\ PermitsOf(2) = 1
    /\ ENABLED PrimaryWake(2)
    /\ ~ENABLED AcquireAiMode(1)


\* C38: permits are conserved: the free permits and the fetches that hold
\* one add up to MAX_CONCURRENT_REQUESTS; a fetch that has ended, by a return
\* of data, a return of None, an exception or a cancellation, has given its
\* permit back exactly once; and all permits are free when the batch has
\* returned.
C38_PermitsConserved ==
    /\ semaphore + InFlight = MAX_CONCURRENT_REQUESTS
    /\ \A k \in Tasks :
          /\ fetch_log[k].acquired <= 1
          /\ Holding(k) => fetch_log[k].acquired = 1 /\ fetch_log[k].released = 0
          /\ ~Holding(k) => fetch_log[k].released = fetch_log[k].acquired
    /\ batch = "done" => semaphore = MAX_CONCURRENT_REQUESTS
    /\ Terminal => semaphore = MAX_CONCURRENT_REQUESTS

\* The first keyword's fetch was left by an exception and the second
\* keyword's fetch was cancelled while it held a permit: each has given its
\* permit back once and all permits are free.
C38_Witness ==
    /\ Len(keywords) = 2
    /\ batch = "raised"
    /\ pc[1] = "raised"
    /\ fetch_log[1].acquired = 1
    /\ fetch_log[1].released = 1
    /\ pc[2] = "cancelled"
    /\ fetch_log[2].acquired = 1
    /\ fetch_log[2].released = 1
    /\ fetch_log[2].tries >= 1
    /\ semaphore = MAX_CONCURRENT_REQUESTS


(***************************************************************************)
(* Who changes the statistics.                                             *)
(***************************************************************************)
\* Orchestrator k runs the statements after a fetch in this step: the fetch
\* was in flight and has returned to process_single_keyword.
FetchReturnsTo(k) ==
    /\ Holding(k)
    /\ pc'[k] \in {"ai_mode_pending", "done", "failed"}

\* C39: the failed counter counts keywords, not attempts or fetches:
\* fetch_serp_data and fetch_ai_mode_data leave every field of the stats as it
\* is on every path, total is not changed once the batch has started, and the
\* stats change only in the statements of process_single_keyword, where
\* failed grows by one exactly when the keyword's primary fetch has failed.
C39_StatsChangeOnlyInOrchestrator ==
    [][/\ stats'.total = stats.total
       /\ stats' # stats =>
             \E k \in Tasks :
                 /\ FetchReturnsTo(k)
                 /\ \A j \in Tasks \ {k} : pc'[j] = pc[j]
                 /\ stats'.failed - stats.failed = (IF pc'[k] = "failed" THEN 1 ELSE 0)
                 /\ stats'.completed - stats.completed = (IF pc'[k] = "done" THEN 1 ELSE 0)
                 /\ pc'[k] = "failed" => pc[k] \in {"primary_request", "primary_backoff"}
       /\ \A k \in Tasks : (Unfinished(k) /\ ~FetchReturnsTo(k)) =>
             counted'[k] = counted[k]
       /\ stats'.failed = Cardinality({k \in Tasks : pc'[k] = "failed"})
      ]_vars

\* The first keyword's primary fetch made three attempts and failed, the
\* second keyword's AI-mode fetch made three attempts and failed: one keyword
\* is counted in failed and one in completed.
C39_Witness ==
    /\ Len(keywords) = 2
    /\ pc[1] = "failed"
    /\ fetch_log[1].endpoint = "organic"
    /\ fetch_log[1].tries = MAX_RETRIES
    /\ pc[2] = "done"
    /\ fetch_log[2].endpoint = "ai_mode"
    /\ fetch_log[2].tries = MAX_RETRIES
    /\ ai_mode_response[2] = ReturnedNone
    /\ stats.failed = 1
    /\ stats.completed = 1


(***************************************************************************)
(* The scraper and the dashboard on one provider.                          *)
(***************************************************************************)
\* The dashboard's process_keywords_async returned or raised.
AuditEnded == audit.pc \in {"returned", "raised"}

\* How often row occurs in the list.
Occurrences(row, list) == Cardinality({n \in 1..Len(list) : list[n] = row})

\* The two lists hold the same rows the same number of times.
SameRows(left, right) ==
    /\ Len(left) = Len(right)
    /\ \A n \in 1..Len(left) : Occurrences(left[n], left) = Occurrences(left[n], right)

\* The fetches the scraper issued, by keyword and endpoint.
ScraperRequests == {<<k, endpoint>> \in Tasks \X Endpoints : endpoint \in posted[k]}

\* The place of a row's keyword in the keyword list.
PlaceOf(row) == CHOOSE k \in Tasks : keywords[k] = row.keyword

\* C40: the dashboard's sequential pipeline and the scraper's concurrent one,
\* given the same keywords, the same AI-mode setting and the same outcome of
\* every request attempt, end alike with the same multiset of rows and the
\* same set of requests; the dashboard's rows are in keyword input order and
\* the dashboard never has more than one fetch in flight.
C40_PipelinesEquivalent ==
    /\ audit.pc # "not_started" =>
          /\ audit.semaphore >= MAX_CONCURRENT_REQUESTS - 1
          /\ \A m, n \in 1..Len(audit.all_rows) :
                m < n => PlaceOf(audit.all_rows[m]) <= PlaceOf(audit.all_rows[n])
    /\ (ScraperEnded /\ AuditEnded) =>
          /\ batch = "done" <=> audit.pc = "returned"
          /\ batch = "done" => SameRows(all_rows, audit.all_rows)
          /\ ScraperRequests = audit.posted

\* No attempt of the script ends in a broken error body or in a body that is
\* not JSON.
Sound(outcomes) == \A n \in 1..Len(outcomes) : outcomes[n] \notin {"body_lost", "bad_json"}

\* A row of the dashboard with the four ai_mode_* keys the scraper gives the
\* row of a reference.
Padded(row) ==
    IF "references_url" \in DOMAIN row /\ row.result_type = "ai_mode"
    THEN [key \in DOMAIN row \cup {"ai_mode_summary", "ai_mode_citations_count",
                                    "ai_mode_primary_domain", "ai_mode_primary_url"} |->
             IF key \in DOMAIN row THEN row[key] ELSE ""]
    ELSE row

\* Where every attempt ends as either program expects, the two pipelines end
\* alike, issue the same fetches, and return the same rows up to the keys of
\* a reference's row.
EquivalentOnSoundScripts ==
    (/\ ScraperEnded
     /\ AuditEnded
     /\ \A k \in Tasks : \A endpoint \in Endpoints : Sound(script[k][endpoint])) =>
        /\ batch = "done"
        /\ audit.pc = "returned"
        /\ SameRows(all_rows, [n \in 1..Len(audit.all_rows) |-> Padded(audit.all_rows[n])])
        /\ ScraperRequests = audit.posted

\* Both pipelines returned on a script whose every attempt is a 200 with a
\* document: the same fetches, the same number of rows, and a reference's row
\* that has ai_mode_summary in the scraper's list and not in the dashboard's.
C40_Witness ==
    /\ Len(keywords) = 2
    /\ LOAD_GOOGLE_AI_MODE
    /\ \A k \in Tasks : \A endpoint \in Endpoints : script[k][endpoint] = <<"ok">>
    /\ batch = "done"
    /\ audit.pc = "returned"
    /\ ScraperRequests = audit.posted
    /\ Len(all_rows) = Len(audit.all_rows)
    /\ \E n \in 1..Len(all_rows) :
          /\ "references_url" \in DOMAIN all_rows[n]
          /\ all_rows[n].result_type = "ai_mode"
          /\ "ai_mode_summary" \in DOMAIN all_rows[n]
    /\ \E n \in 1..Len(audit.all_rows) :
          /\ "references_url" \in DOMAIN audit.all_rows[n]
          /\ audit.all_rows[n].result_type = "ai_mode"
          /\ "ai_mode_summary" \notin DOMAIN audit.all_rows[n]
    /\ ~SameRows(all_rows, audit.all_rows)

====
